---- MODULE Spec2Model ----
(***************************************************************************)
(* SkillGate runtime gateway and report signer.                            *)
(*                                                                         *)
(*   Spec      the policy pipeline of `skillgate run` (run_command) and    *)
(*             `skillgate gateway check` (gateway_check_command), one      *)
(*             action per phase block of the handler; invocations follow   *)
(*             one another and later ones may present tokens minted by     *)
(*             earlier ones; `skillgate gateway scan-output` is one action.*)
(*   SignSpec  the report signer (core/signer): key generation, signing,   *)
(*             changes made to a signed payload, verification.             *)
(*   DagSpec   one call of `skillgate dag verify` or `skillgate dag risk`  *)
(*             (dag.py) on an artifact file.                               *)
(*   StoreSpec    a store file written with Path.write_text (bom.py,       *)
(*                approval.py) while other invocations read it.            *)
(*   KeygenSpec   generate_keypair calls (keys.py) interleaved on one key  *)
(*                directory, and signing with the files they leave.        *)
(*   HandoffSpec  several gateway invocations started with the scope token *)
(*                and key of one parent session.                           *)
(*   LineageSpec  the lineage store and risk_summary, after the written    *)
(*                specification (their code is not part of the sources).   *)
(***************************************************************************)
EXTENDS Integers, Sequences, FiniteSets, TLC

\* ------------------------------------------------------------------ bounds
\* Number of gateway invocations (sessions) in one behaviour.
MaxSessions == 2
\* Largest value of --required-reviewers / reviewer count in an approval file.
MaxReviewers == 2
\* Largest return code of the wrapped process (the smallest modelled is -1).
MaxReturnCode == 2
\* Number of key directories (and so of keypairs) of the signer.
MaxKeyDirs == 2
\* Largest max_depth and risk_score of a lineage summary.
MaxDepth == 2
\* Blocks (buffer flushes) a written file content consists of, at most.
MaxBlocks == 2
\* Concurrent generate_keypair calls on one key directory.
MaxKeygenCalls == 2
\* Gateway invocations one parent's environment is handed to.
MaxInvocations == 2
\* Session artifacts loaded into one lineage store.
MaxNodes == 3

\* ------------------------------------------------------- values and inputs
\* `None` for a session id (run.py:392 `return None`, `parent_session_id?`).
NoParent == 0

SessionIds == 1..MaxSessions
\* A signing key nobody of the modelled sessions owns.
ForeignKey == MaxSessions + 1
KeyOwners == SessionIds \cup {ForeignKey}

Environments == {"dev", "ci", "prod", "strict"}

Phases ==
  <<"precheck", "provenance", "bom_gate", "approval", "reputation", "scope_token",
    "execute_start", "execute", "tool_output", "complete">>

\* Values of os.environ["SKILLGATE_SCOPE_TOKEN"]: unset, "", a string that is
\* no token, or a token: its payload's parent_session and the key that signed it.
NoToken == [kind |-> "none"]
EmptyToken == [kind |-> "empty"]
GarbageToken == [kind |-> "garbage"]
Token(parent, signer) == [kind |-> "token", parent_session |-> parent, signer |-> signer]

\* Values of os.environ["SKILLGATE_SCOPE_PUBLIC_KEY"]: unset, "", a string
\* that is not the hex of a 32 byte key, or the public key of a key owner.
NoKey == [kind |-> "none"]
EmptyKey == [kind |-> "empty"]
GarbageKey == [kind |-> "garbage"]
PublicKey(owner) == [kind |-> "key", owner |-> owner]

\* Values of an integer environment variable, as the text int() is given.
\* "unset" stands for the variable being absent.
IntEnvTexts == {"unset", "", "abc", "-1", "1", "2"}

\* int(raw) of Python on the texts above; "ValueError" when it raises.
PyInt(raw) ==
  CASE raw = "-1" -> [ok |-> TRUE, value |-> -1]
    [] raw = "0" -> [ok |-> TRUE, value |-> 0]
    [] raw = "1" -> [ok |-> TRUE, value |-> 1]
    [] raw = "2" -> [ok |-> TRUE, value |-> 2]
    [] OTHER -> [ok |-> FALSE, value |-> 0]

Max(a, b) == IF a >= b THEN a ELSE b

\* ------------------------------------------------------------------- state
VARIABLES
  pc,             \* position of the current invocation in its handler
  cmd,            \* "none" | "run" | "check" | "scan": the command being executed
  args,           \* its command-line options
  environ,        \* os.environ of the gateway process (scope token and key)
  loc,            \* the handler's local variables
  session,        \* the RuntimeSession of init_session, or NoSession
  artifact,       \* what finalize_session wrote to artifact_path, or NoSession
  finalize_calls, \* number of finalize_session calls of this invocation
  late_appends,   \* decisions or edges appended after a finalize_session call
  launches,       \* the subprocess.run calls: exec vector and environment
  emitted,        \* what was written to sys.stdout / sys.stderr
  exit_code,      \* the process exit code, meaningful when pc = "exited"
  fault,          \* "none", or the uncaught exception that ended the process
  issued,         \* scope tokens minted so far, by any invocation
  next_id,        \* number of sessions created so far, plus one
  keystore,       \* signer: key directory -> the keypair files it holds
  payload,        \* signer: the report dict handed to verification
  signed,         \* signer: what create_signed_report last signed, and where
  verdict,        \* signer: outcome of the last verification call
  dag,            \* dag: the last `dag verify` / `dag risk` call and what it did
  store,          \* a store file on disk, its writer, and what a reader last saw
  keydir,         \* a key directory's two files and the generate_keypair calls on it
  handoff,        \* the invocations that were started with a parent's scope token
  lineage         \* the lineage store: loaded session artifacts, the last risk summary

gateway_vars ==
  <<pc, cmd, args, environ, loc, session, artifact, finalize_calls, late_appends,
    launches, emitted, exit_code, fault, issued, next_id>>

signer_vars == <<keystore, payload, signed, verdict>>

\* What lies beside one gateway invocation: the dag commands, files shared
\* between processes, and the invocations a scope token was handed to.
side_vars == <<dag, store, keydir, handoff, lineage>>

vars == <<gateway_vars, signer_vars, side_vars>>

NoSession == [session_id |-> NoParent]

NoArgs == [env |-> "dev"]

NoLocals == [parent_session_id |-> NoParent]

NoOutput == [stdout |-> "", stderr |-> ""]

Idle ==
  /\ pc = "idle"
  /\ cmd = "none"
  /\ args = NoArgs
  /\ environ = [token |-> NoToken, key |-> NoKey]
  /\ loc = NoLocals
  /\ session = NoSession
  /\ artifact = NoSession
  /\ finalize_calls = 0
  /\ late_appends = 0
  /\ launches = <<>>
  /\ emitted = NoOutput
  /\ exit_code = 0
  /\ fault = "none"

\* The signer before anything was generated or signed.
NoKeypair == [present |-> FALSE]
EmptyDict == [k \in {} |-> NoKeypair]
NotSigned == [done |-> FALSE]
NoVerdict == [by |-> "none"]
NoDag == [cmd |-> "none"]

\* A store file nobody has written or read yet: empty, no write under way.
\* `previous` and `new` are the contents before and after the last write_text.
NoStore ==
  [file |-> <<>>, writer |-> "idle", previous |-> <<>>, new |-> <<>>, observed |-> <<>>]

\* A lineage store nothing was loaded into and nothing was asked of.
NoSummary == [root |-> NoParent]
NoLineage == [artifacts |-> <<>>, summary |-> NoSummary]

\* A file of the key directory that does not exist, and one that was created
\* or truncated and holds no bytes yet.  Other values are the key a file holds:
\* the call that generated it.
NoFile == 0
EmptyFile == -1

\* An empty key directory and generate_keypair calls that have not started.
\* `first_private` is the first key ever stored in signing.key, `signverify`
\* what verify_report said of a report signed with the files as they are.
NoKeydir ==
  [private |-> NoFile, public |-> NoFile, first_private |-> NoFile,
   pc |-> [p \in 1..MaxKeygenCalls |-> "start"], signverify |-> "none"]

Init ==
  /\ Idle
  /\ issued = {}
  /\ next_id = 1
  /\ keystore = [d \in 1..MaxKeyDirs |-> NoKeypair]
  /\ payload = EmptyDict
  /\ signed = NotSigned
  /\ verdict = NoVerdict
  /\ dag = NoDag
  /\ store = NoStore
  /\ keydir = NoKeydir
  /\ handoff = <<>>
  /\ lineage = NoLineage

\* ----------------------------------------------- core/gateway (session ledger)
\* init_session: a fresh session with an empty ledger.
InitSession(id, environment, parent) ==
  [session_id |-> id, environment |-> environment, parent_session_id |-> parent,
   decisions |-> <<>>, lineage_edges |-> <<>>]

Decision(phase, outcome, code, severity, metadata) ==
  [phase |-> phase, outcome |-> outcome, code |-> code, severity |-> severity,
   metadata |-> metadata]

NoMeta == [none |-> TRUE]

\* append_signed_decision: pure append to the in-memory ledger; never rejects.
AppendSignedDecision(s, d) == [s EXCEPT !.decisions = Append(@, d)]

\* append_lineage_edge: pure append of a LineageEdge.
AppendLineageEdge(s, parent, child, decision) ==
  [s EXCEPT !.lineage_edges =
     Append(@, [parent_session_id |-> parent, child_session_id |-> child,
                decision |-> decision])]

\* The ledger after the handler appended `n` records to it: counts the ones
\* that arrive after finalize_session.
LateAppends(n) == IF finalize_calls > 0 THEN late_appends + n ELSE late_appends

\* finalize_session(session, signing_key, artifact_path): serialise, sign, write.
FinalizeSession(s) ==
  /\ artifact' = s
  /\ finalize_calls' = finalize_calls + 1

\* verify_scope_token(token, verify_key): the payload of a token whose
\* signature verifies under the key; raises otherwise.
VerifyScopeToken(token, key) ==
  IF token.kind = "token" /\ key.kind = "key" /\ token.signer = key.owner
    THEN [ok |-> TRUE, parent_session |-> token.parent_session]
    ELSE [ok |-> FALSE, parent_session |-> NoParent]

\* create_scope_token(parent_session=session.session_id, signing_key=...).
CreateScopeToken(session_id) == Token(session_id, session_id)

\* ------------------------------------------------ helpers of run.py/gateway.py
\* ResolveParentSession that goes on without a parent when the key is missing.
ResolveParentSessionKeyless(token, key) ==
  IF token.kind \in {"none", "empty"} \/ key.kind \in {"none", "empty"}
    THEN [exit |-> FALSE, parent |-> NoParent]
  ELSE IF key.kind = "garbage" \/ ~VerifyScopeToken(token, key).ok
    THEN [exit |-> TRUE, parent |-> NoParent]
  ELSE [exit |-> FALSE, parent |-> VerifyScopeToken(token, key).parent_session]

\* ResolveParentSession that swallows the verification error and returns None.
ResolveParentSessionSwallow(token, key) ==
  IF token.kind \in {"none", "empty"}
    THEN [exit |-> FALSE, parent |-> NoParent]
  ELSE IF key.kind \in {"none", "empty"}
    THEN [exit |-> TRUE, parent |-> NoParent]
  ELSE IF key.kind = "garbage" \/ ~VerifyScopeToken(token, key).ok
    THEN [exit |-> FALSE, parent |-> NoParent]
  ELSE [exit |-> FALSE, parent |-> VerifyScopeToken(token, key).parent_session]

\* _resolve_parent_session: [exit |-> TRUE] stands for typer.Exit(code=1).
ResolveParentSession(token, key) ==
  IF token.kind \in {"none", "empty"}
    THEN [exit |-> FALSE, parent |-> NoParent]
  ELSE IF key.kind \in {"none", "empty"}
    THEN [exit |-> TRUE, parent |-> NoParent]
  ELSE IF key.kind = "garbage" \/ ~VerifyScopeToken(token, key).ok
    THEN [exit |-> TRUE, parent |-> NoParent]
  ELSE [exit |-> FALSE, parent |-> VerifyScopeToken(token, key).parent_session]

\* _parse_nonnegative_int_env: 0 for unset, blank, unparsable and negative.
ParseNonnegativeIntEnv(raw) ==
  IF raw \in {"unset", ""} THEN 0
  ELSE IF ~PyInt(raw).ok THEN 0
  ELSE IF PyInt(raw).value > 0 THEN PyInt(raw).value ELSE 0

\* ReviewersRequired that ignores the environment variable.
ReviewersRequiredFlagOnly(flag, raw) == flag

\* reviewers_required = max(required_reviewers, _parse_nonnegative_int_env(...))
ReviewersRequired(flag, raw) == Max(flag, ParseNonnegativeIntEnv(raw))

\* requires_provenance = env_value in {CI, PROD, STRICT}
RequiresProvenance(env) == env \in {"ci", "prod", "strict"}

\* ProvenanceMissing that looks at the skill id alone.
ProvenanceMissingIdOnly(a) == ~a.skill_id

\* not skill_id or not skill_hash or not scan_attestation
ProvenanceMissing(a) == ~a.skill_id \/ ~a.skill_hash \/ ~a.scan_attestation

\* ---------------------------------------------------------- external oracles
\* run_runtime_prechecks: allowed, code, severity (command classifier).
PrecheckResults ==
  {[allowed |-> TRUE, code |-> "precheck.code", severity |-> "low"],
   [allowed |-> FALSE, code |-> "precheck.code", severity |-> "high"],
   [allowed |-> FALSE, code |-> "precheck.code", severity |-> "critical"]}

\* BomGate.check: allowed, code.  evaluate_runtime_reputation: allowed, code.
OracleResults ==
  {[allowed |-> TRUE, code |-> "oracle.code"], [allowed |-> FALSE, code |-> "oracle.code"]}

\* verify_approval_file(path, required_reviewers, ...): the file's distinct
\* reviewers and whether its signatures and subject match; allowed needs quorum.
ApprovalResults(required) ==
  {[allowed |-> valid /\ n >= required, code |-> "approval.code", reviewer_count |-> n] :
     n \in 0..MaxReviewers, valid \in BOOLEAN}

\* resolve_sandbox_backend(): an isolation backend, or direct execution.
Backends == {"bwrap", "none"}

\* build_sandboxed_command(backend, command, timeout_seconds) -> exec vector
BuildSandboxedCommand(backend, timeout_seconds) ==
  [backend |-> backend, command |-> "tool", timeout |-> timeout_seconds]

\* Texts of SKILLGATE_RUNTIME_TIMEOUT_SECONDS the model draws from.
TimeoutEnvTexts == {"unset", "", "abc", "0"}

\* os.environ.get("SKILLGATE_RUNTIME_TIMEOUT_SECONDS", "120") then int(...).
DefaultTimeoutSeconds == 120
TimeoutSeconds(raw) ==
  IF raw = "unset" THEN [ok |-> TRUE, value |-> DefaultTimeoutSeconds] ELSE PyInt(raw)

\* ------------------------------------------------------------ process control
Exit(code) ==
  /\ pc' = "exited"
  /\ exit_code' = code

\* The command-line options several phases read: --env, the wrapped command
\* (empty or not), and whether --skill-id, --skill-hash, --scan-attestation
\* were given a non-empty value.  An option or environment variable that one
\* phase alone reads (--approval-file, --required-reviewers, the reviewer and
\* timeout variables, --disable-top-guard) is drawn where that phase reads it.
PolicyArgs ==
  [env : Environments, has_command : BOOLEAN, skill_id : BOOLEAN, skill_hash : BOOLEAN,
   scan_attestation : BOOLEAN]

\* Scope tokens an invocation can find in its environment: none, an empty or
\* unparsable text, a token minted earlier, or one signed with a foreign key.
PresentableTokens ==
  {NoToken, EmptyToken, GarbageToken} \cup issued
    \cup {Token(p, ForeignKey) : p \in SessionIds}

PresentableKeys ==
  {NoKey, EmptyKey, GarbageKey} \cup {PublicKey(o) : o \in KeyOwners}

\* The environments an invocation starts in.  Without a token the key variable
\* is never read: it is then unset or left over from somewhere else.
Environs ==
  {[token |-> t, key |-> k] : t \in PresentableTokens \ {NoToken, EmptyToken},
                              k \in PresentableKeys}
    \cup {[token |-> NoToken, key |-> k] : k \in {NoKey, PublicKey(ForeignKey)}}
    \cup {[token |-> EmptyToken, key |-> NoKey]}

Locals(parent) ==
  [parent_session_id |-> parent, allowed |-> TRUE, required_reviewers |-> 0,
   reviewers_env |-> "unset", approval_file |-> FALSE, reviewers_required |-> 0,
   scope_token |-> NoToken, timeout_seconds |-> 0,
   backend |-> "none", returncode |-> 0, stdout |-> "", stderr |-> "",
   output_stdout |-> "", output_stderr |-> "", top_outcome |-> "none"]

\* The approval inputs are read by the approval block alone (run.py:181-219,
\* gateway.py:158-196); the locals that hold them are dead after it.  The
\* quorum computed from them, reviewers_required, is kept.
PastApproval(l) ==
  [l EXCEPT !.required_reviewers = 0, !.reviewers_env = "unset", !.approval_file = FALSE]

\* ------------------------------------------------- `skillgate run` (run.py)
\* run.py:98-114: parse, resolve the parent session, create the session.
RunInvoke ==
  /\ pc = "idle"
  /\ next_id <= MaxSessions
  /\ \E a \in PolicyArgs, e \in Environs :
       /\ cmd' = "run"
       /\ args' = a
       /\ environ' = e
       /\ IF ~a.has_command
            THEN /\ Exit(3)
                 /\ UNCHANGED <<loc, session, next_id>>
          ELSE IF ResolveParentSession(e.token, e.key).exit
            THEN /\ Exit(1)
                 /\ UNCHANGED <<loc, session, next_id>>
          ELSE /\ session' = InitSession(next_id, a.env, ResolveParentSession(e.token, e.key).parent)
               /\ loc' = Locals(ResolveParentSession(e.token, e.key).parent)
               /\ next_id' = next_id + 1
               /\ pc' = "precheck"
               /\ UNCHANGED exit_code
  /\ UNCHANGED <<artifact, finalize_calls, late_appends, launches, emitted, fault, issued>>
  /\ UNCHANGED <<signer_vars, side_vars>>

\* A blocked phase of `run`: record the decision, finalize, exit 1.
RunBlock(d) ==
  /\ session' = AppendSignedDecision(session, d)
  /\ late_appends' = LateAppends(1)
  /\ FinalizeSession(session')
  /\ Exit(1)

\* An allowed phase of `run`: record the decision and go on.
RunAllow(d, next) ==
  /\ session' = AppendSignedDecision(session, d)
  /\ late_appends' = LateAppends(1)
  /\ pc' = next
  /\ UNCHANGED <<artifact, finalize_calls, exit_code>>

RunSkip(next) ==
  /\ pc' = next
  /\ UNCHANGED <<session, late_appends, artifact, finalize_calls, exit_code>>

\* run.py:116-136
RunPrecheck ==
  /\ cmd = "run" /\ pc = "precheck"
  /\ \E r \in PrecheckResults :
       LET d == Decision("precheck", IF r.allowed THEN "allow" ELSE "block",
                         r.code, r.severity, NoMeta)
       IN IF ~r.allowed THEN RunBlock(d) ELSE RunAllow(d, "provenance")
  /\ UNCHANGED <<cmd, args, environ, loc, launches, emitted, fault, issued, next_id>>
  /\ UNCHANGED <<signer_vars, side_vars>>

\* run.py:138-161
RunProvenance ==
  /\ cmd = "run" /\ pc = "provenance"
  /\ IF RequiresProvenance(args.env) /\ ProvenanceMissing(args)
       THEN RunBlock(Decision("provenance", "block", "SG-RT-PROV-001", "high", NoMeta))
       ELSE RunSkip("bom_gate")
  /\ UNCHANGED <<cmd, args, environ, loc, launches, emitted, fault, issued, next_id>>
  /\ UNCHANGED <<signer_vars, side_vars>>

\* run.py:163-179
RunBomGate ==
  /\ cmd = "run" /\ pc = "bom_gate"
  /\ IF args.skill_id
       THEN \E r \in OracleResults :
              LET d == Decision("bom_gate", IF r.allowed THEN "allow" ELSE "block", r.code,
                                IF ~r.allowed THEN "critical" ELSE "low", NoMeta)
              IN IF ~r.allowed THEN RunBlock(d) ELSE RunAllow(d, "approval")
       ELSE RunSkip("approval")
  /\ UNCHANGED <<cmd, args, environ, loc, launches, emitted, fault, issued, next_id>>
  /\ UNCHANGED <<signer_vars, side_vars>>

\* run.py:181-219
RunApproval ==
  /\ cmd = "run" /\ pc = "approval"
  /\ \E flag \in 0..MaxReviewers, raw \in IntEnvTexts, file \in BOOLEAN :
       LET required == ReviewersRequired(flag, raw)
       IN /\ loc' = [loc EXCEPT !.required_reviewers = flag, !.reviewers_env = raw,
                                 !.approval_file = file, !.reviewers_required = required]
          /\ IF RequiresProvenance(args.env) /\ required > 0
               THEN IF ~file
                      THEN RunBlock(Decision("approval", "block", "SG-RT-APPROVAL-001",
                                             "high", NoMeta))
                      ELSE \E r \in ApprovalResults(required) :
                             LET d == Decision("approval",
                                               IF r.allowed THEN "allow" ELSE "block",
                                               r.code, IF r.allowed THEN "low" ELSE "high",
                                               [reviewer_count |-> r.reviewer_count])
                             IN IF ~r.allowed THEN RunBlock(d) ELSE RunAllow(d, "reputation")
               ELSE RunSkip("reputation")
  /\ UNCHANGED <<cmd, args, environ, launches, emitted, fault, issued, next_id>>
  /\ UNCHANGED <<signer_vars, side_vars>>

\* RunReputation without the `if not reputation.allowed` early exit.
RunReputationNoHalt ==
  /\ cmd = "run" /\ pc = "reputation"
  /\ \E r \in OracleResults :
       /\ RunAllow(Decision("reputation", IF r.allowed THEN "allow" ELSE "block", r.code,
                             IF ~r.allowed THEN "high" ELSE "low", NoMeta),
                   "scope_token")
       /\ loc' = PastApproval(loc)
  /\ UNCHANGED <<cmd, args, environ, launches, emitted, fault, issued, next_id>>
  /\ UNCHANGED <<signer_vars, side_vars>>

\* run.py:221-243
RunReputation ==
  /\ cmd = "run" /\ pc = "reputation"
  /\ \E r \in OracleResults :
       LET d == Decision("reputation", IF r.allowed THEN "allow" ELSE "block", r.code,
                         IF ~r.allowed THEN "high" ELSE "low", NoMeta)
       IN /\ IF ~r.allowed THEN RunBlock(d) ELSE RunAllow(d, "scope_token")
          /\ loc' = IF r.allowed THEN PastApproval(loc) ELSE loc
  /\ UNCHANGED <<cmd, args, environ, launches, emitted, fault, issued, next_id>>
  /\ UNCHANGED <<signer_vars, side_vars>>

\* RunScopeToken recording the edge from the child to the parent.
RunScopeTokenEdgeReversed ==
  /\ cmd = "run" /\ pc = "scope_token"
  /\ loc' = [loc EXCEPT !.scope_token = CreateScopeToken(session.session_id)]
  /\ issued' = issued \cup {CreateScopeToken(session.session_id)}
  /\ IF loc.parent_session_id # NoParent
       THEN /\ session' = AppendLineageEdge(session, session.session_id,
                                            loc.parent_session_id, "allow")
            /\ late_appends' = LateAppends(1)
       ELSE UNCHANGED <<session, late_appends>>
  /\ pc' = "execute_start"
  /\ UNCHANGED <<cmd, args, environ, artifact, finalize_calls, launches, emitted,
                 exit_code, fault, next_id>>
  /\ UNCHANGED <<signer_vars, side_vars>>

\* run.py:245-261: mint the child's scope token, build its environment, record
\* the lineage edge of a session that has a parent.
RunScopeToken ==
  /\ cmd = "run" /\ pc = "scope_token"
  /\ loc' = [loc EXCEPT !.scope_token = CreateScopeToken(session.session_id)]
  /\ issued' = issued \cup {CreateScopeToken(session.session_id)}
  /\ IF loc.parent_session_id # NoParent
       THEN /\ session' = AppendLineageEdge(session, loc.parent_session_id,
                                            session.session_id, "allow")
            /\ late_appends' = LateAppends(1)
       ELSE UNCHANGED <<session, late_appends>>
  /\ pc' = "execute_start"
  /\ UNCHANGED <<cmd, args, environ, artifact, finalize_calls, launches, emitted,
                 exit_code, fault, next_id>>
  /\ UNCHANGED <<signer_vars, side_vars>>

\* RunEnv that hands the gateway's own environment on as it is.
RunEnvInherited == environ

\* run_env = os.environ.copy() with the token and the key replaced.
RunEnv ==
  [environ EXCEPT !.token = loc.scope_token, !.key = PublicKey(session.session_id)]

\* run.py:263-282: read the timeout, resolve the backend, record execute_start.
\* int() of a text that is no integer raises ValueError, which nothing catches.
RunExecuteStart ==
  /\ cmd = "run" /\ pc = "execute_start"
  /\ \E raw \in TimeoutEnvTexts :
       IF ~TimeoutSeconds(raw).ok
         THEN /\ fault' = "ValueError"
              /\ Exit(1)
              /\ UNCHANGED <<loc, session, late_appends, artifact, finalize_calls>>
         ELSE \E b \in Backends :
                /\ loc' = [loc EXCEPT !.timeout_seconds = TimeoutSeconds(raw).value,
                                      !.backend = b]
                /\ RunAllow(Decision("execute_start", "allow", "SG-RT-SBX-EXEC", "low",
                              [backend |-> b,
                               command |-> BuildSandboxedCommand(b, TimeoutSeconds(raw).value)]),
                            "execute")
                /\ UNCHANGED fault
  /\ UNCHANGED <<cmd, args, environ, launches, emitted, issued, next_id>>
  /\ UNCHANGED <<signer_vars, side_vars>>

ReturnCodes == -1..MaxReturnCode

\* completed.stdout, completed.stderr of a child that returned.
CapturedOutputs == {[stdout |-> "out", stderr |-> "err"], [stdout |-> "", stderr |-> ""]}

\* Launch that runs the wrapped command directly, whatever backend was resolved.
LaunchDirect(result) ==
  [command |-> BuildSandboxedCommand("none", loc.timeout_seconds),
   env |-> RunEnv, timeout |-> Max(1, loc.timeout_seconds), result |-> result]

\* The subprocess.run call of run.py:285-292 and how it ended: "timeout"
\* (TimeoutExpired), "oserror" (OSError) or "returned".
Launch(result) ==
  [command |-> BuildSandboxedCommand(loc.backend, loc.timeout_seconds),
   env |-> RunEnv, timeout |-> Max(1, loc.timeout_seconds), result |-> result]

\* RunTimeoutExpired recording the timeout as a warning.
RunTimeoutExpiredAsWarn ==
  /\ launches' = Append(launches, Launch("timeout"))
  /\ RunBlock(Decision("execute", "warn", "SG-RT-TIMEOUT", "medium", NoMeta))
  /\ UNCHANGED <<loc, emitted>>

\* run.py:293-305: except subprocess.TimeoutExpired
RunTimeoutExpired ==
  /\ launches' = Append(launches, Launch("timeout"))
  /\ RunBlock(Decision("execute", "block", "SG-RT-TIMEOUT", "high", NoMeta))
  /\ UNCHANGED <<loc, emitted>>

\* run.py:306-318: except OSError
RunOSError ==
  /\ launches' = Append(launches, Launch("oserror"))
  /\ session' = AppendSignedDecision(session,
       Decision("execute", "block", "SG-RT-EXEC-001", "critical", NoMeta))
  /\ late_appends' = LateAppends(1)
  /\ FinalizeSession(session')
  /\ Exit(2)
  /\ UNCHANGED <<loc, emitted>>

\* run.py:285-292, 320-321: the child returned; its code and output are kept.
RunCompleted ==
  /\ launches' = Append(launches, Launch("returned"))
  /\ \E rc \in ReturnCodes, o \in CapturedOutputs :
       loc' = [loc EXCEPT !.returncode = rc, !.stdout = o.stdout, !.stderr = o.stderr,
                          !.output_stdout = o.stdout, !.output_stderr = o.stderr]
  /\ RunSkip("tool_output")
  /\ UNCHANGED emitted

\* run.py:284-318: subprocess.run(exec_command, env=run_env, timeout=max(1, t)).
RunExecute ==
  /\ cmd = "run" /\ pc = "execute"
  /\ (RunTimeoutExpired \/ RunOSError \/ RunCompleted)
  /\ UNCHANGED <<cmd, args, environ, fault, issued, next_id>>
  /\ UNCHANGED <<signer_vars, side_vars>>

\* Values of --top-outcome: not given, or annotate | sanitize | block.
TopOutcomes == {"none", "annotate", "sanitize", "block"}

\* str.upper() / str.lower() on the guard's outcomes.
Upper(outcome) ==
  CASE outcome = "annotate" -> "ANNOTATE"
    [] outcome = "sanitize" -> "SANITIZE"
    [] outcome = "block" -> "BLOCK"

Lower(outcome) ==
  CASE outcome = "PASS" -> "pass"
    [] outcome = "ANNOTATE" -> "annotate"
    [] outcome = "SANITIZE" -> "sanitize"
    [] outcome = "BLOCK" -> "block"

\* A detection of the guard with the given outcome class.  SANITIZE always
\* produces sanitized_text; no other outcome does.
Detection(outcome) ==
  [outcome |-> outcome, rule_id |-> "SG-TOP-001",
   severity |-> IF outcome = "ANNOTATE" THEN "medium"
                ELSE IF outcome = "SANITIZE" THEN "high" ELSE "critical",
   sanitized |-> outcome = "SANITIZE", matched_patterns |-> <<"pattern">>]

\* ToolOutputGuard(environment, outcome_override).scan(text): PASS without a
\* rule id when no detector matches; otherwise the outcome class the
\* environment's detectors give, or the operator's override in its place.
ScanResults(outcome_override) ==
  {[outcome |-> "PASS", rule_id |-> "none", severity |-> "none", sanitized |-> FALSE,
    matched_patterns |-> <<>>]}
    \cup {Detection(o) : o \in IF outcome_override = "none"
                                  THEN {"ANNOTATE", "SANITIZE", "BLOCK"}
                                  ELSE {Upper(outcome_override)}}

\* run.py:326-335, gateway.py:305-314: the decision recorded for a scan result.
ToolOutputDecision(r) ==
  Decision("tool_output", Lower(r.outcome),
           IF r.rule_id = "none" THEN "SG-TOP-PASS" ELSE r.rule_id,
           IF r.severity = "none" THEN "low" ELSE r.severity,
           [matched_patterns |-> r.matched_patterns])

\* GuardedOutput that leaves the captured stderr in place.
GuardedOutputKeepStderr(r, l) ==
  IF r.outcome = "SANITIZE" /\ r.sanitized
    THEN [l EXCEPT !.output_stdout = "sanitized"]
    ELSE l

\* run.py:341-343: what will be written after a scan that did not block.
GuardedOutput(r, l) ==
  IF r.outcome = "SANITIZE" /\ r.sanitized
    THEN [l EXCEPT !.output_stdout = "sanitized", !.output_stderr = ""]
    ELSE l

\* run.py:320-348
RunToolOutput ==
  /\ cmd = "run" /\ pc = "tool_output"
  /\ \E enable_top_guard \in BOOLEAN, top_outcome \in TopOutcomes :
     IF enable_top_guard
       THEN \E r \in ScanResults(top_outcome) :
              LET d == ToolOutputDecision(r)
                  seen == [loc EXCEPT !.top_outcome = top_outcome]
              IN IF r.outcome = "BLOCK"
                   THEN RunBlock(d) /\ loc' = seen
                   ELSE /\ RunAllow(d, "complete")
                        /\ loc' = GuardedOutput(r, seen)
       ELSE /\ top_outcome = "none"
            /\ RunSkip("complete") /\ UNCHANGED loc
  /\ UNCHANGED <<cmd, args, environ, launches, emitted, fault, issued, next_id>>
  /\ UNCHANGED <<signer_vars, side_vars>>

\* CompleteDecision that blocks on a failed child.
CompleteDecisionStrict(returncode) ==
  Decision("complete", IF returncode = 0 THEN "allow" ELSE "block", "SG-RT-PROC-EXIT",
           IF returncode = 0 THEN "low" ELSE "medium", NoMeta)

\* run.py:350-358: the decision of the complete phase.
CompleteDecision(returncode) ==
  Decision("complete", IF returncode = 0 THEN "allow" ELSE "warn", "SG-RT-PROC-EXIT",
           IF returncode = 0 THEN "low" ELSE "medium", NoMeta)

\* ForwardedExitCode reduced to success or failure.
ForwardedExitCodeFlag(returncode) == IF returncode = 0 THEN 0 ELSE 1

\* run.py:365: raise typer.Exit(code=completed.returncode)
ForwardedExitCode(returncode) == returncode

\* RunComplete that writes the output where the artifact should be written.
RunCompleteUnfinalized ==
  /\ cmd = "run" /\ pc = "complete"
  /\ session' = AppendSignedDecision(session, CompleteDecision(loc.returncode))
  /\ late_appends' = LateAppends(1)
  /\ emitted' = [stdout |-> loc.output_stdout, stderr |-> loc.output_stderr]
  /\ pc' = "release"
  /\ UNCHANGED <<cmd, args, environ, loc, artifact, finalize_calls, launches, exit_code,
                 fault, issued, next_id>>
  /\ UNCHANGED <<signer_vars, side_vars>>

\* run.py:350-359: record the complete decision and finalize the session.
RunComplete ==
  /\ cmd = "run" /\ pc = "complete"
  /\ session' = AppendSignedDecision(session, CompleteDecision(loc.returncode))
  /\ late_appends' = LateAppends(1)
  /\ FinalizeSession(session')
  /\ pc' = "release"
  /\ UNCHANGED <<cmd, args, environ, loc, launches, emitted, exit_code, fault, issued,
                 next_id>>
  /\ UNCHANGED <<signer_vars, side_vars>>

\* run.py:361-365: write the kept output, exit with the child's return code.
RunRelease ==
  /\ cmd = "run" /\ pc = "release"
  /\ emitted' = [stdout |-> loc.output_stdout, stderr |-> loc.output_stderr]
  /\ Exit(ForwardedExitCode(loc.returncode))
  /\ UNCHANGED <<cmd, args, environ, loc, session, artifact, finalize_calls, late_appends,
                 launches, fault, issued, next_id>>
  /\ UNCHANGED <<signer_vars, side_vars>>

\* ------------------------------------- `skillgate gateway check` (gateway.py)
\* --command is a required option and the guard options do not exist here.
CheckArgs == {a \in PolicyArgs : a.has_command}

\* A phase of `gateway check`: record the decision, keep its verdict in `allowed`.
CheckRecord(d, allowed, next) ==
  /\ session' = AppendSignedDecision(session, d)
  /\ late_appends' = LateAppends(1)
  /\ loc' = [loc EXCEPT !.allowed = allowed]
  /\ pc' = next

CheckSkip(next) ==
  /\ pc' = next
  /\ UNCHANGED <<session, late_appends, loc>>

\* gateway.py:81-92
CheckInvoke ==
  /\ pc = "idle"
  /\ next_id <= MaxSessions
  /\ \E a \in CheckArgs, e \in Environs :
       /\ cmd' = "check"
       /\ args' = a
       /\ environ' = e
       /\ IF ResolveParentSession(e.token, e.key).exit
            THEN /\ Exit(1)
                 /\ UNCHANGED <<loc, session, next_id>>
            ELSE /\ session' = InitSession(next_id, a.env, ResolveParentSession(e.token, e.key).parent)
                 /\ loc' = Locals(ResolveParentSession(e.token, e.key).parent)
                 /\ next_id' = next_id + 1
                 /\ pc' = "precheck"
                 /\ UNCHANGED exit_code
  /\ UNCHANGED <<artifact, finalize_calls, late_appends, launches, emitted, fault, issued>>
  /\ UNCHANGED <<signer_vars, side_vars>>

\* gateway.py:94-114
CheckPrecheck ==
  /\ cmd = "check" /\ pc = "precheck"
  /\ \E r \in PrecheckResults :
       CheckRecord(Decision("precheck", IF r.allowed THEN "allow" ELSE "block",
                            r.code, r.severity, NoMeta),
                   r.allowed, "provenance")
  /\ UNCHANGED <<cmd, args, environ, artifact, finalize_calls, launches, emitted,
                 exit_code, fault, issued, next_id>>
  /\ UNCHANGED <<signer_vars, side_vars>>

\* CheckProvenance that records the block and leaves `allowed` set.
CheckProvenanceStaysAllowed ==
  /\ cmd = "check" /\ pc = "provenance"
  /\ IF loc.allowed /\ RequiresProvenance(args.env) /\ ProvenanceMissing(args)
       THEN CheckRecord(Decision("provenance", "block", "SG-RT-PROV-001", "high", NoMeta),
                        TRUE, "bom_gate")
       ELSE CheckSkip("bom_gate")
  /\ UNCHANGED <<cmd, args, environ, artifact, finalize_calls, launches, emitted,
                 exit_code, fault, issued, next_id>>
  /\ UNCHANGED <<signer_vars, side_vars>>

\* gateway.py:116-139
CheckProvenance ==
  /\ cmd = "check" /\ pc = "provenance"
  /\ IF loc.allowed /\ RequiresProvenance(args.env) /\ ProvenanceMissing(args)
       THEN CheckRecord(Decision("provenance", "block", "SG-RT-PROV-001", "high", NoMeta),
                        FALSE, "bom_gate")
       ELSE CheckSkip("bom_gate")
  /\ UNCHANGED <<cmd, args, environ, artifact, finalize_calls, launches, emitted,
                 exit_code, fault, issued, next_id>>
  /\ UNCHANGED <<signer_vars, side_vars>>

\* CheckBomGate recording a refused skill with severity high.
CheckBomGateHigh ==
  /\ cmd = "check" /\ pc = "bom_gate"
  /\ IF loc.allowed /\ args.skill_id
       THEN \E r \in OracleResults :
              CheckRecord(Decision("bom_gate", IF r.allowed THEN "allow" ELSE "block",
                                   r.code, IF ~r.allowed THEN "high" ELSE "low", NoMeta),
                          r.allowed, "approval")
       ELSE CheckSkip("approval")
  /\ UNCHANGED <<cmd, args, environ, artifact, finalize_calls, launches, emitted,
                 exit_code, fault, issued, next_id>>
  /\ UNCHANGED <<signer_vars, side_vars>>

\* gateway.py:141-156
CheckBomGate ==
  /\ cmd = "check" /\ pc = "bom_gate"
  /\ IF loc.allowed /\ args.skill_id
       THEN \E r \in OracleResults :
              CheckRecord(Decision("bom_gate", IF r.allowed THEN "allow" ELSE "block",
                                   r.code, IF ~r.allowed THEN "critical" ELSE "low", NoMeta),
                          r.allowed, "approval")
       ELSE CheckSkip("approval")
  /\ UNCHANGED <<cmd, args, environ, artifact, finalize_calls, launches, emitted,
                 exit_code, fault, issued, next_id>>
  /\ UNCHANGED <<signer_vars, side_vars>>

\* gateway.py:158-196
CheckApproval ==
  /\ cmd = "check" /\ pc = "approval"
  /\ \E flag \in 0..MaxReviewers, raw \in IntEnvTexts, file \in BOOLEAN :
       LET required == ReviewersRequired(flag, raw)
           seen == [loc EXCEPT !.required_reviewers = flag, !.reviewers_env = raw,
                               !.approval_file = file, !.reviewers_required = required]
       IN IF loc.allowed /\ RequiresProvenance(args.env) /\ required > 0
            THEN \E r \in ApprovalResults(required) :
                   /\ session' = AppendSignedDecision(session,
                        IF ~file
                          THEN Decision("approval", "block", "SG-RT-APPROVAL-001", "high",
                                        NoMeta)
                          ELSE Decision("approval", IF r.allowed THEN "allow" ELSE "block",
                                        r.code, IF r.allowed THEN "low" ELSE "high",
                                        [reviewer_count |-> r.reviewer_count]))
                   /\ late_appends' = LateAppends(1)
                   /\ loc' = [seen EXCEPT !.allowed = file /\ r.allowed]
                   /\ pc' = "reputation"
            ELSE /\ loc' = seen
                 /\ pc' = "reputation"
                 /\ UNCHANGED <<session, late_appends>>
  /\ UNCHANGED <<cmd, args, environ, artifact, finalize_calls, launches, emitted,
                 exit_code, fault, issued, next_id>>
  /\ UNCHANGED <<signer_vars, side_vars>>

\* gateway.py:198-220
CheckReputation ==
  /\ cmd = "check" /\ pc = "reputation"
  /\ IF loc.allowed
       THEN \E r \in OracleResults :
              /\ session' = AppendSignedDecision(session,
                   Decision("reputation", IF r.allowed THEN "allow" ELSE "block",
                            r.code, IF ~r.allowed THEN "high" ELSE "low", NoMeta))
              /\ late_appends' = LateAppends(1)
              /\ loc' = [PastApproval(loc) EXCEPT !.allowed = r.allowed]
              /\ pc' = "scope_token"
       ELSE /\ loc' = PastApproval(loc)
            /\ pc' = "scope_token"
            /\ UNCHANGED <<session, late_appends>>
  /\ UNCHANGED <<cmd, args, environ, artifact, finalize_calls, launches, emitted,
                 exit_code, fault, issued, next_id>>
  /\ UNCHANGED <<signer_vars, side_vars>>

\* ScopeTokenDecision recorded under the phase name of another block.
ScopeTokenDecisionMisnamed ==
  Decision("reputation", "allow", "SG-TRUST-TOKEN-ISSUED", "low", NoMeta)

\* gateway.py:238-246: the decision that records the token issuance.
ScopeTokenDecision ==
  Decision("scope_token", "allow", "SG-TRUST-TOKEN-ISSUED", "low", NoMeta)

\* gateway.py:222-246
CheckScopeToken ==
  /\ cmd = "check" /\ pc = "scope_token"
  /\ IF loc.allowed
       THEN /\ loc' = [loc EXCEPT !.scope_token = CreateScopeToken(session.session_id)]
            /\ issued' = issued \cup {CreateScopeToken(session.session_id)}
            /\ LET d == ScopeTokenDecision
               IN IF loc.parent_session_id # NoParent
                    THEN /\ session' = AppendSignedDecision(
                              AppendLineageEdge(session, loc.parent_session_id,
                                                session.session_id, "allow"), d)
                         /\ late_appends' = LateAppends(2)
                    ELSE /\ session' = AppendSignedDecision(session, d)
                         /\ late_appends' = LateAppends(1)
       ELSE UNCHANGED <<loc, issued, session, late_appends>>
  /\ pc' = "finalize"
  /\ UNCHANGED <<cmd, args, environ, artifact, finalize_calls, launches, emitted,
                 exit_code, fault, next_id>>
  /\ UNCHANGED <<signer_vars, side_vars>>

\* gateway.py:248-264: finalize, print the JSON result, exit 0 or 1.
CheckFinalize ==
  /\ cmd = "check" /\ pc = "finalize"
  /\ FinalizeSession(session)
  /\ emitted' = [stdout |-> "json", stderr |-> "",
                 result |-> [allowed |-> loc.allowed, session_id |-> session.session_id,
                             scope_token |-> loc.scope_token,
                             scope_public_key |-> PublicKey(session.session_id)]]
  /\ Exit(IF loc.allowed THEN 0 ELSE 1)
  /\ UNCHANGED <<cmd, args, environ, loc, session, late_appends, launches, fault,
                 issued, next_id>>
  /\ UNCHANGED <<signer_vars, side_vars>>

\* ------------------------------- `skillgate gateway scan-output` (gateway.py)
\* gateway.py:267-329: the whole command.  Neither --output-text nor
\* --output-file is a usage error (typer.BadParameter, exit code 2) before any
\* session exists; the scope token variables are not read.
ScanOutput ==
  /\ pc = "idle"
  /\ next_id <= MaxSessions
  /\ \E env \in Environments, has_text \in BOOLEAN, top_outcome \in TopOutcomes :
       /\ cmd' = "scan"
       /\ args' = [env |-> env, has_text |-> has_text, top_outcome |-> top_outcome]
       /\ IF ~has_text
            THEN /\ Exit(2)
                 /\ UNCHANGED <<session, next_id, late_appends, artifact, finalize_calls,
                                emitted>>
            ELSE \E r \in ScanResults(top_outcome) :
                   /\ session' = AppendSignedDecision(InitSession(next_id, env, NoParent),
                                                       ToolOutputDecision(r))
                   /\ next_id' = next_id + 1
                   /\ late_appends' = LateAppends(1)
                   /\ FinalizeSession(session')
                   /\ emitted' = [stdout |-> "json", stderr |-> "",
                                  result |-> [outcome |-> r.outcome, rule_id |-> r.rule_id,
                                              matched_patterns |-> r.matched_patterns]]
                   /\ Exit(IF r.outcome = "BLOCK" THEN 1 ELSE 0)
  /\ UNCHANGED <<environ, loc, launches, fault, issued>>
  /\ UNCHANGED <<signer_vars, side_vars>>

\* ------------------------------------------------------ core/signer (reports)
\* Report dicts: `findings` holds an object with an optional `sev`, `verdict`
\* a string; either may be missing.  A report handed to the signer may carry a
\* stale `attestation` entry.
Str(s) == [t |-> "str", s |-> s]
Obj(o) == [t |-> "obj", o |-> o]

Dicts(keys, values) == UNION {[D -> values] : D \in SUBSET keys}

Strings == {Str("low"), Str("high")}

Findings == {Obj(o) : o \in Dicts({"sev"}, Strings)}

Contents ==
  {c \in Dicts({"findings", "verdict"}, Findings \cup Strings) :
     /\ "findings" \in DOMAIN c => c["findings"] \in Findings
     /\ "verdict" \in DOMAIN c => c["verdict"] \in Strings}

Reports == Contents \cup {("attestation" :> Str("low")) @@ c : c \in Contents}

\* The keys of the modelled dicts in the order sort_keys=True puts them.
SortedKeys == <<"attestation", "findings", "sev", "verdict">>

\* JsonValue that does not descend into nested objects.
JsonValueShallow(v) ==
  IF v.t = "str" THEN <<"\"", v.s, "\"">> ELSE <<"{", "...", "}">>

RECURSIVE JsonValue(_), JsonMembers(_, _, _)

\* json.dumps of one value: a string between quotes, or an object's members in
\* sorted key order between braces, "," between members, ":" after a key.
JsonValue(v) ==
  IF v.t = "str" THEN <<"\"", v.s, "\"">>
  ELSE IF v.t = "obj" THEN <<"{">> \o JsonMembers(v.o, 1, TRUE) \o <<"}">>
  ELSE <<"{", "...", "}">>

JsonMembers(d, i, first) ==
  IF i > Len(SortedKeys) THEN <<>>
  ELSE IF SortedKeys[i] \notin DOMAIN d THEN JsonMembers(d, i + 1, first)
  ELSE (IF first THEN <<>> ELSE <<",">>)
         \o <<SortedKeys[i], ":">> \o JsonValue(d[SortedKeys[i]])
         \o JsonMembers(d, i + 1, FALSE)

\* canonical_json(data): json.dumps(data, sort_keys=True, separators=(",", ":"))
CanonicalJson(data) == <<"{">> \o JsonMembers(data, 1, TRUE) \o <<"}">>

\* hash_canonical(data): SHA-256 hex digest of the canonical text.  SHA-256 is
\* taken to be collision free: the digest stands for the text it was made of.
HashCanonical(data) == <<"sha256">> \o CanonicalJson(data)

\* build_signing_scope: every top-level entry except `attestation`.
BuildSigningScope(report_dict) ==
  [k \in DOMAIN report_dict \ {"attestation"} |-> report_dict[k]]

\* Ed25519: a signature names the private key that made it and the message;
\* VerifyKey(pub).verify accepts it under the public half of that key only.
Ed25519Sign(private, message) == [key |-> private, message |-> message]
Ed25519Verify(public, message, signature) ==
  signature.key = public.owner /\ signature.message = message

\* load_signing_key / load_public_key_hex: the files of the key directory.
LoadSigningKey(dir) == keystore[dir].private
LoadPublicKeyHex(dir) == keystore[dir].public

\* SignReport hashing report_data as given, a stale attestation included.
SignReportUnscoped(report_data, dir) ==
  [t |-> "att",
   report_hash |-> HashCanonical(report_data),
   timestamp |-> "now",
   public_key |-> LoadPublicKeyHex(dir),
   signature |-> Ed25519Sign(LoadSigningKey(dir), HashCanonical(report_data))]

\* sign_report(report_data, key_dir): the attestation block.
SignReport(report_data, dir) ==
  [t |-> "att",
   report_hash |-> HashCanonical(BuildSigningScope(report_data)),
   timestamp |-> "now",
   public_key |-> LoadPublicKeyHex(dir),
   signature |-> Ed25519Sign(LoadSigningKey(dir),
                             HashCanonical(BuildSigningScope(report_data)))]

\* create_signed_report: dict(report_data) with result["attestation"] set.
CreateSignedReportDict(report_data, dir) ==
  ("attestation" :> SignReport(report_data, dir)) @@ report_data

\* The attestation fields verify_report requires (engine.py:60).
RequiredFields == {"report_hash", "public_key", "signature", "timestamp"}

\* A signature field whose text is no hex: bytes.fromhex raises ValueError.
NotHex == [nothex |-> TRUE]

\* No signature field in the attestation block at all.
NoSignature == [absent |-> TRUE]

\* VerifyReport that decodes the key and checks the signature before it
\* compares the hashes.
VerifyReportSignatureFirst(report_data) ==
  IF "attestation" \notin DOMAIN report_data \/ report_data["attestation"].t # "att"
    THEN "SigningError: no attestation block"
  ELSE IF ~(RequiredFields \subseteq DOMAIN report_data["attestation"])
    THEN "SigningError: attestation missing fields"
  ELSE IF report_data["attestation"].public_key.kind # "key"
    THEN "SigningError: invalid public key"
  ELSE IF report_data["attestation"].signature = NotHex
    THEN "SigningError: invalid signature hex"
  ELSE IF ~Ed25519Verify(report_data["attestation"].public_key,
                         HashCanonical(BuildSigningScope(report_data)),
                         report_data["attestation"].signature)
    THEN "SigningError: invalid signature"
  ELSE IF HashCanonical(BuildSigningScope(report_data))
            # report_data["attestation"].report_hash
    THEN "SigningError: hash mismatch"
  ELSE "True"

\* verify_report(report_data): "True", or the SigningError it raises.
VerifyReport(report_data) ==
  IF "attestation" \notin DOMAIN report_data \/ report_data["attestation"].t # "att"
    THEN "SigningError: no attestation block"
  ELSE IF ~(RequiredFields \subseteq DOMAIN report_data["attestation"])
    THEN "SigningError: attestation missing fields"
  ELSE IF HashCanonical(BuildSigningScope(report_data))
            # report_data["attestation"].report_hash
    THEN "SigningError: hash mismatch"
  ELSE IF report_data["attestation"].public_key.kind # "key"
    THEN "SigningError: invalid public key"
  ELSE IF report_data["attestation"].signature = NotHex
    THEN "SigningError: invalid signature hex"
  ELSE IF ~Ed25519Verify(report_data["attestation"].public_key,
                         HashCanonical(BuildSigningScope(report_data)),
                         report_data["attestation"].signature)
    THEN "SigningError: invalid signature"
  ELSE "True"

\* verify_report_with_key(report_data, public_key_hex): no check of the
\* required fields; attestation["signature"] of a block without one is a
\* KeyError.
VerifyReportWithKey(report_data, public_key_hex) ==
  IF "attestation" \notin DOMAIN report_data \/ report_data["attestation"].t # "att"
    THEN "SigningError: no attestation block"
  ELSE IF HashCanonical(BuildSigningScope(report_data))
            # report_data["attestation"].report_hash
    THEN "SigningError: hash mismatch"
  ELSE IF public_key_hex.kind # "key"
    THEN "SigningError: invalid public key"
  ELSE IF "signature" \notin DOMAIN report_data["attestation"]
    THEN "KeyError"
  ELSE IF report_data["attestation"].signature = NotHex
    THEN "SigningError: invalid signature hex"
  ELSE IF ~Ed25519Verify(public_key_hex,
                         HashCanonical(BuildSigningScope(report_data)),
                         report_data["attestation"].signature)
    THEN "SigningError: invalid signature"
  ELSE "True"

\* generate_keypair(key_dir): refuses a directory that holds a key already;
\* SigningKey.generate() makes a key no other directory holds.
GenerateKeypair(dir) ==
  /\ ~keystore[dir].present
  /\ LET fresh == 1 + Cardinality({d \in DOMAIN keystore : keystore[d].present})
     IN keystore' = [keystore EXCEPT ![dir] =
          [present |-> TRUE, private |-> fresh, public |-> PublicKey(fresh)]]
  /\ UNCHANGED <<payload, signed, verdict>>
  /\ UNCHANGED <<gateway_vars, side_vars>>

\* create_signed_report(report_data, key_dir) with the keys of a directory
\* generate_keypair filled.  One report is signed in a behaviour.
CreateSignedReport(report_data, dir) ==
  /\ ~signed.done
  /\ keystore[dir].present
  /\ payload' = CreateSignedReportDict(report_data, dir)
  /\ signed' = [done |-> TRUE, content |-> BuildSigningScope(report_data), dir |-> dir,
                attestation |-> SignReport(report_data, dir)]
  /\ verdict' = NoVerdict
  /\ UNCHANGED keystore
  /\ UNCHANGED <<gateway_vars, side_vars>>

\* Somebody rewrites the signed payload outside its attestation block: any
\* entry, top-level or nested, is altered, added or removed.
TamperContent(content) ==
  /\ signed.done
  /\ content # BuildSigningScope(payload)
  /\ payload' = ("attestation" :> payload["attestation"]) @@ content
  /\ verdict' = NoVerdict
  /\ UNCHANGED <<keystore, signed>>
  /\ UNCHANGED <<gateway_vars, side_vars>>

\* The keys a verifier may hold: the public half of a generated keypair, or
\* text that is no key.
VerifierKeys ==
  {keystore[d].public : d \in {x \in DOMAIN keystore : keystore[x].present}}
    \cup {GarbageKey}

\* What somebody can put into the public_key and signature fields of a signed
\* payload: a text that is no key, a text that is no hex, no signature field,
\* or the public key of a generated keypair with a signature of the embedded
\* report_hash made with that keypair.
Forgeries ==
  {<<GarbageKey, NotHex>>,
   <<GarbageKey, signed.attestation.signature>>,
   <<signed.attestation.public_key, NotHex>>,
   <<signed.attestation.public_key, NoSignature>>}
    \cup {<<keystore[d].public,
            Ed25519Sign(keystore[d].private, signed.attestation.report_hash)>> :
            d \in {x \in DOMAIN keystore : keystore[x].present}}

\* Somebody rewrites the attestation block of the signed payload, once and
\* before it is verified: the public_key field and the signature field
\* (replaced, or removed when `signature` is NoSignature).  The embedded
\* report_hash stays.
TamperAttestation(public_key, signature) ==
  /\ signed.done
  /\ verdict = NoVerdict
  /\ payload["attestation"] = signed.attestation
  /\ LET att == payload["attestation"]
         new == IF signature = NoSignature
                  THEN [t |-> "att", report_hash |-> att.report_hash,
                        timestamp |-> att.timestamp, public_key |-> public_key]
                  ELSE [t |-> "att", report_hash |-> att.report_hash,
                        timestamp |-> att.timestamp, public_key |-> public_key,
                        signature |-> signature]
     IN /\ new # att
        /\ payload' = ("attestation" :> new) @@ BuildSigningScope(payload)
  /\ verdict' = NoVerdict
  /\ UNCHANGED <<keystore, signed>>
  /\ UNCHANGED <<gateway_vars, side_vars>>

VerifyReportCall ==
  /\ signed.done
  /\ verdict' = [by |-> "verify_report", result |-> VerifyReport(payload)]
  /\ UNCHANGED <<keystore, payload, signed>>
  /\ UNCHANGED <<gateway_vars, side_vars>>

VerifyReportWithKeyCall(public_key_hex) ==
  /\ signed.done
  /\ verdict' = [by |-> "verify_report_with_key", key |-> public_key_hex,
                 result |-> VerifyReportWithKey(payload, public_key_hex)]
  /\ UNCHANGED <<keystore, payload, signed>>
  /\ UNCHANGED <<gateway_vars, side_vars>>

SignNext ==
  \/ \E d \in DOMAIN keystore : GenerateKeypair(d)
  \/ \E r \in Reports, d \in DOMAIN keystore : CreateSignedReport(r, d)
  \/ \E c \in Contents : TamperContent(c)
  \/ /\ signed.done
     /\ \E f \in Forgeries : TamperAttestation(f[1], f[2])
  \/ VerifyReportCall
  \/ \E k \in VerifierKeys : VerifyReportWithKeyCall(k)

SignSpec == Init /\ [][SignNext]_vars

\* ------------------------------------------------ `skillgate dag` (dag.py)
\* A session artifact path: no file, or a file whose signature verifies or
\* not, with the lineage metrics analyze_lineage_artifact reads from it.
ArtifactFiles ==
  {[exists |-> FALSE]}
    \cup [exists : {TRUE}, intact : BOOLEAN, max_depth : 0..MaxDepth, risk_score : 0..MaxDepth]

\* verify_session_artifact(path) -> bool
VerifySessionArtifact(file) == file.intact

\* analyze_lineage_artifact(path): the summary fields the thresholds read.
AnalyzeLineageArtifact(file) == [max_depth |-> file.max_depth, risk_score |-> file.risk_score]

\* --max-depth / --max-risk-score: None or an integer.
Thresholds == {[given |-> FALSE, value |-> 0]} \cup [given : {TRUE}, value : 0..MaxDepth]

NoText == [kind |-> "none"]

\* dag.py:32-45
DagVerify ==
  /\ dag = NoDag
  /\ \E file \in ArtifactFiles :
       dag' = [cmd |-> "verify", file |-> file,
               stdout |-> IF ~file.exists THEN NoText
                          ELSE [kind |-> "verified", verified |-> VerifySessionArtifact(file)],
               exit_code |-> IF ~file.exists THEN 3
                             ELSE IF VerifySessionArtifact(file) THEN 0 ELSE 1]
  /\ UNCHANGED <<gateway_vars, signer_vars, store, keydir, handoff, lineage>>

\* dag.py:84-118: the JSON document carries `verified`; the human text lists
\* the summary fields only.
RiskReport(output, verified, summary) ==
  IF output = "json"
    THEN [kind |-> "summary", format |-> "json", verified |-> verified,
          max_depth |-> summary.max_depth, risk_score |-> summary.risk_score]
    ELSE [kind |-> "summary", format |-> "human",
          max_depth |-> summary.max_depth, risk_score |-> summary.risk_score]

\* dag.py:120-124
RiskExitCode(summary, max_depth, max_risk_score) ==
  IF max_depth.given /\ summary.max_depth > max_depth.value THEN 1
  ELSE IF max_risk_score.given /\ summary.risk_score > max_risk_score.value THEN 1
  ELSE 0

\* dag.py:48-124
DagRisk ==
  /\ dag = NoDag
  /\ \E entitled \in BOOLEAN, file \in ArtifactFiles, allow_unsigned \in BOOLEAN,
        output \in {"human", "json"}, max_depth \in Thresholds, max_risk_score \in Thresholds :
       LET call == [cmd |-> "risk", entitled |-> entitled, file |-> file,
                    allow_unsigned |-> allow_unsigned, output |-> output,
                    max_depth |-> max_depth, max_risk_score |-> max_risk_score]
           done(text, code) == call @@ [stdout |-> text, exit_code |-> code]
       IN dag' =
            IF ~entitled THEN done(NoText, 1)
            ELSE IF ~file.exists THEN done(NoText, 3)
            ELSE IF ~VerifySessionArtifact(file) /\ ~allow_unsigned THEN done(NoText, 1)
            ELSE done(RiskReport(output, VerifySessionArtifact(file),
                                 AnalyzeLineageArtifact(file)),
                      RiskExitCode(AnalyzeLineageArtifact(file), max_depth, max_risk_score))
  /\ UNCHANGED <<gateway_vars, signer_vars, store, keydir, handoff, lineage>>

DagNext == DagVerify \/ DagRisk

DagSpec == Init /\ [][DagNext]_vars

\* ----------------------------- store files (bom.py, approval.py: write_text)
\* A file content: the blocks the writer's buffer is flushed in.
StoreContents == UNION {[1..n -> {"a", "b"}] : n \in 1..MaxBlocks}

\* bom.py:49-60, approval.py:130-133: Path.write_text opens the destination
\* itself with mode "w", which truncates it.
WriteTextOpen ==
  /\ store.writer = "idle"
  /\ \E data \in StoreContents :
       store' = [store EXCEPT !.writer = "writing", !.previous = store.file, !.new = data,
                              !.file = <<>>]
  /\ UNCHANGED <<gateway_vars, signer_vars, dag, keydir, handoff, lineage>>

\* The next block of the data reaches the file.
WriteTextFlush ==
  /\ store.writer = "writing"
  /\ Len(store.file) < Len(store.new)
  /\ store' = [store EXCEPT !.file = Append(@, store.new[Len(store.file) + 1])]
  /\ UNCHANGED <<gateway_vars, signer_vars, dag, keydir, handoff, lineage>>

\* All data written: the file is closed and the command goes on.
WriteTextClose ==
  /\ store.writer = "writing"
  /\ store.file = store.new
  /\ store' = [store EXCEPT !.writer = "idle"]
  /\ UNCHANGED <<gateway_vars, signer_vars, dag, keydir, handoff, lineage>>

\* The writing process is killed; the file stays as it is.
WriterCrash ==
  /\ store.writer = "writing"
  /\ store.file # store.new
  /\ store' = [store EXCEPT !.writer = "idle"]
  /\ UNCHANGED <<gateway_vars, signer_vars, dag, keydir, handoff, lineage>>

\* run.py:163-165 (BomGate.from_store) and the other readers: another
\* invocation reads the file as it is now.
ReadStore ==
  /\ store' = [store EXCEPT !.observed = store.file]
  /\ UNCHANGED <<gateway_vars, signer_vars, dag, keydir, handoff, lineage>>

StoreNext == WriteTextOpen \/ WriteTextFlush \/ WriteTextClose \/ WriterCrash \/ ReadStore

StoreSpec == Init /\ [][StoreNext]_vars

\* ------------------- concurrent generate_keypair calls on one directory
\* Each call generates a key of its own (SigningKey.generate()).
KeygenCalls == 1..MaxKeygenCalls

KeygenStep(p, next) == [keydir EXCEPT !.pc[p] = next, !.signverify = "none"]

\* keys.py:47-51: mkdir, then `if private_path.exists(): raise SigningError`.
KeygenCheck(p) ==
  /\ keydir.pc[p] = "start"
  /\ keydir' = KeygenStep(p, IF keydir.private # NoFile THEN "failed" ELSE "checked")
  /\ UNCHANGED <<gateway_vars, signer_vars, dag, store, handoff, lineage>>

\* keys.py:57: private_path.write_bytes opens the file, creating or
\* truncating it.
KeygenOpenPrivate(p) ==
  /\ keydir.pc[p] = "checked"
  /\ keydir' = [KeygenStep(p, "private_open") EXCEPT !.private = EmptyFile]
  /\ UNCHANGED <<gateway_vars, signer_vars, dag, store, handoff, lineage>>

\* keys.py:57-58: the 32 bytes of the call's key are written; chmod.
KeygenWritePrivate(p) ==
  /\ keydir.pc[p] = "private_open"
  /\ keydir' = [KeygenStep(p, "private_written") EXCEPT
                  !.private = p,
                  !.first_private = IF @ = NoFile THEN p ELSE @]
  /\ UNCHANGED <<gateway_vars, signer_vars, dag, store, handoff, lineage>>

\* keys.py:61: public_path.write_text opens the file, creating or truncating it.
KeygenOpenPublic(p) ==
  /\ keydir.pc[p] = "private_written"
  /\ keydir' = [KeygenStep(p, "public_open") EXCEPT !.public = EmptyFile]
  /\ UNCHANGED <<gateway_vars, signer_vars, dag, store, handoff, lineage>>

\* keys.py:61-65: the hex of the call's verify key is written; return.
KeygenWritePublic(p) ==
  /\ keydir.pc[p] = "public_open"
  /\ keydir' = [KeygenStep(p, "done") EXCEPT !.public = p]
  /\ UNCHANGED <<gateway_vars, signer_vars, dag, store, handoff, lineage>>

\* sign_report with the two files of the directory as they are (engine.py:
\* 28-29 loads them one after the other), then verify_report of the result.
KeydirSignVerify(report_data) ==
  IF keydir.private = NoFile THEN "SigningError: no signing key"
  ELSE IF keydir.private = EmptyFile THEN "SigningError: invalid key file"
  ELSE IF keydir.public = NoFile THEN "SigningError: no public key"
  ELSE VerifyReport(
         ("attestation" :>
            [t |-> "att",
             report_hash |-> HashCanonical(BuildSigningScope(report_data)),
             timestamp |-> "now",
             public_key |-> IF keydir.public = EmptyFile THEN EmptyKey
                            ELSE PublicKey(keydir.public),
             signature |-> Ed25519Sign(keydir.private,
                                       HashCanonical(BuildSigningScope(report_data)))])
           @@ report_data)

\* A report is signed and verified by a process using the directory.
KeydirSignVerifyCall ==
  /\ keydir.signverify = "none"
  /\ \E r \in Contents : keydir' = [keydir EXCEPT !.signverify = KeydirSignVerify(r)]
  /\ UNCHANGED <<gateway_vars, signer_vars, dag, store, handoff, lineage>>

KeygenNext ==
  \/ \E p \in KeygenCalls :
       \/ KeygenCheck(p) \/ KeygenOpenPrivate(p) \/ KeygenWritePrivate(p)
       \/ KeygenOpenPublic(p) \/ KeygenWritePublic(p)
  \/ KeydirSignVerifyCall

KeygenSpec == Init /\ [][KeygenNext]_vars

\* ------------------------- scope-token hand-off over several invocations
\* The environments the children of session 1 are started in: the token it
\* minted (run.py:236, RunEnv) or none, and a key variable.
HandoffEnvirons ==
  {[token |-> t, key |-> k] :
     t \in {NoToken, GarbageToken, CreateScopeToken(1)},
     k \in {NoKey, GarbageKey, PublicKey(1), PublicKey(ForeignKey)}}

\* run.py:107-113 / gateway.py:83-89: resolve the parent session from the
\* environment and construct the session; nothing is kept of the token.
Handoff(command, e) ==
  [cmd |-> command, token |-> e.token, key |-> e.key,
   exit |-> ResolveParentSession(e.token, e.key).exit,
   parent_session_id |-> ResolveParentSession(e.token, e.key).parent]

HandoffRun ==
  /\ Len(handoff) < MaxInvocations
  /\ \E e \in HandoffEnvirons : handoff' = Append(handoff, Handoff("run", e))
  /\ UNCHANGED <<gateway_vars, signer_vars, dag, store, keydir, lineage>>

HandoffCheck ==
  /\ Len(handoff) < MaxInvocations
  /\ \E e \in HandoffEnvirons : handoff' = Append(handoff, Handoff("check", e))
  /\ UNCHANGED <<gateway_vars, signer_vars, dag, store, keydir, lineage>>

HandoffNext == HandoffRun \/ HandoffCheck

HandoffSpec == Init /\ [][HandoffNext]_vars

\* ---------------------------------------- lineage store and risk summary
\* The artifacts of the store; the session created i-th has session_id i.
Nodes == 1..Len(lineage.artifacts)

\* The sessions a LineageEdge leads to from session n.
Children(n) == {c \in Nodes : lineage.artifacts[c].parent_session_id = n}

\* lineage_tree(root): the sessions reachable from root, root included.  A
\* child is created after its parent, so a descendant's id is the larger one.
RECURSIVE Subtree(_)
Subtree(n) == {n} \cup UNION {Subtree(c) : c \in Children(n)}

Leaves(root) == {n \in Subtree(root) : Children(n) = {}}

\* The sessions on the path from root down to n.
RECURSIVE PathTo(_, _)
PathTo(root, n) ==
  IF n = root \/ n = NoParent THEN {n}
  ELSE {n} \cup PathTo(root, lineage.artifacts[n].parent_session_id)

HighRisk(severity) == severity \in {"high", "critical"}

\* The decisions of session n whose severity is high or critical.
HighRiskOf(n) ==
  Cardinality({i \in 1..Len(lineage.artifacts[n].decisions) :
                 HighRisk(lineage.artifacts[n].decisions[i])})

RECURSIVE SumOver(_, _)
SumOver(f, S) ==
  IF S = {} THEN 0
  ELSE LET n == CHOOSE x \in S : TRUE IN f[n] + SumOver(f, S \ {n})

\* node_count: the sessions of the subtree.
NodeCount(root) == Cardinality(Subtree(root))

\* edge_count: the edges of the subtree.
EdgeCount(root) ==
  Cardinality({c \in Subtree(root) : lineage.artifacts[c].parent_session_id \in Subtree(root)})

\* max_depth: the longest root-to-leaf path, in edges.
RECURSIVE MaxDepthOf(_)
MaxDepthOf(n) ==
  IF Children(n) = {} THEN 0
  ELSE 1 + (CHOOSE d \in {MaxDepthOf(c) : c \in Children(n)} :
              \A e \in {MaxDepthOf(c) : c \in Children(n)} : e <= d)

\* BlastRadius that leaves the root out.
BlastRadiusDescendants(root) == Cardinality(Subtree(root) \ {root})

\* blast_radius: the distinct sessions reachable from root, root inclusive.
BlastRadius(root) == Cardinality(Subtree(root))

\* high_risk_decisions: the decisions across the subtree whose severity is
\* high or critical.
HighRiskDecisions(root) == SumOver([n \in Nodes |-> HighRiskOf(n)], Subtree(root))

\* high_risk_path_count: the root-to-leaf paths with a high-risk decision.
HighRiskPathCount(root) ==
  Cardinality({l \in Leaves(root) : \E n \in PathTo(root, l) : HighRiskOf(n) > 0})

\* risk_summary(root), the fields the spec defines by a formula.
RiskSummary(root) ==
  [root |-> root,
   node_count |-> NodeCount(root),
   edge_count |-> EdgeCount(root),
   max_depth |-> MaxDepthOf(root),
   blast_radius |-> BlastRadius(root),
   high_risk_decisions |-> HighRiskDecisions(root),
   high_risk_path_count |-> HighRiskPathCount(root)]

\* The ledgers of a loaded artifact, by the severities of their decisions.
LedgerSeverities == {<<>>, <<"low">>, <<"high">>, <<"critical">>}

\* A finalized session artifact is loaded: a root session, or the child of a
\* session already in the store (run.py:244-253: the child records the edge).
LoadArtifact(parent, decisions) ==
  /\ Len(lineage.artifacts) < MaxNodes
  /\ parent \in {NoParent} \cup Nodes
  /\ lineage' = [artifacts |-> Append(lineage.artifacts,
                                     [session_id |-> Len(lineage.artifacts) + 1,
                                      parent_session_id |-> parent,
                                      decisions |-> decisions]),
                 summary |-> NoSummary]
  /\ UNCHANGED <<gateway_vars, signer_vars, dag, store, keydir, handoff>>

\* risk_summary(root) is computed for a session of the store.
RiskSummaryCall(root) ==
  /\ root \in Nodes
  /\ lineage.summary = NoSummary
  /\ lineage' = [lineage EXCEPT !.summary = RiskSummary(root)]
  /\ UNCHANGED <<gateway_vars, signer_vars, dag, store, keydir, handoff>>

LineageNext ==
  \/ \E parent \in 0..MaxNodes, decisions \in LedgerSeverities : LoadArtifact(parent, decisions)
  \/ \E root \in 1..MaxNodes : RiskSummaryCall(root)

LineageSpec == Init /\ [][LineageNext]_vars

\* ----------------------------------------------------------- specification
\* The process has exited; the next gateway invocation starts from scratch.
\* Only what outlives a process is kept: the tokens handed out so far.
NextInvocation ==
  /\ pc = "exited"
  /\ pc' = "idle"
  /\ cmd' = "none"
  /\ args' = NoArgs
  /\ environ' = [token |-> NoToken, key |-> NoKey]
  /\ loc' = NoLocals
  /\ session' = NoSession
  /\ artifact' = NoSession
  /\ finalize_calls' = 0
  /\ late_appends' = 0
  /\ launches' = <<>>
  /\ emitted' = NoOutput
  /\ exit_code' = 0
  /\ fault' = "none"
  /\ UNCHANGED <<issued, next_id>>
  /\ UNCHANGED <<signer_vars, side_vars>>

Next ==
  \/ RunInvoke \/ RunPrecheck \/ RunProvenance \/ RunBomGate \/ RunApproval
  \/ RunReputation \/ RunScopeToken \/ RunExecuteStart \/ RunExecute \/ RunToolOutput
  \/ RunComplete \/ RunRelease
  \/ CheckInvoke \/ CheckPrecheck \/ CheckProvenance \/ CheckBomGate \/ CheckApproval
  \/ CheckReputation \/ CheckScopeToken \/ CheckFinalize
  \/ ScanOutput
  \/ NextInvocation

Spec == Init /\ [][Next]_vars

\* ------------------------------------------------------------------ claims
\* The ledger of a session, empty while there is none.
Decisions(s) == IF s = NoSession THEN <<>> ELSE s.decisions

PhaseIndex(phase) == CHOOSE i \in 1..Len(Phases) : Phases[i] = phase

HasDecision(ds, phase) == \E i \in 1..Len(ds) : ds[i].phase = phase

HasBlock(ds) == \E i \in 1..Len(ds) : ds[i].outcome = "block"

Last(ds) == ds[Len(ds)]

Range(seq) == {seq[i] : i \in 1..Len(seq)}

\* No decision of a phase after a blocked one, `complete` aside.
HaltsAtBlock(ds) ==
  \A i, j \in 1..Len(ds) :
    (ds[i].outcome = "block" /\ PhaseIndex(ds[j].phase) > PhaseIndex(ds[i].phase))
      => ds[j].phase = "complete"

BlockedBeforeExecuteStart(ds) ==
  \E i \in 1..Len(ds) :
    ds[i].outcome = "block" /\ PhaseIndex(ds[i].phase) < PhaseIndex("execute_start")

\* C1: once a phase has blocked, neither the ledger nor the written artifact
\* holds a decision of a later phase (other than complete), and after a block
\* before execute_start the wrapped command has not been launched.
C1_FailClosedHalting ==
  /\ HaltsAtBlock(Decisions(session))
  /\ HaltsAtBlock(Decisions(artifact))
  /\ BlockedBeforeExecuteStart(Decisions(session)) => launches = <<>>

\* A `run` that the reputation oracle blocked has exited with its artifact.
C1_Witness ==
  /\ cmd = "run" /\ pc = "exited"
  /\ artifact # NoSession
  /\ Len(artifact.decisions) > 1
  /\ Last(artifact.decisions).phase = "reputation"
  /\ Last(artifact.decisions).outcome = "block"
  /\ launches = <<>>

\* C2: an invocation that created a session has, when it exits, called
\* finalize_session exactly once, and the artifact holds everything the
\* session holds (nothing was appended after finalizing).
C2_FinalizeOnceAndLast ==
  (pc = "exited" /\ session # NoSession)
    => (finalize_calls = 1 /\ late_appends = 0 /\ artifact = session)

\* Strictly increasing phase positions: fixed order, no phase twice.
InPhaseOrder(ds) ==
  \A i, j \in 1..Len(ds) : i < j => PhaseIndex(ds[i].phase) < PhaseIndex(ds[j].phase)

\* C3: in every ledger state and in every artifact the decisions follow the
\* fixed phase order and no phase occurs twice; an artifact of `run` or
\* `gateway check` starts with precheck.
C3_FixedPhaseOrder ==
  /\ InPhaseOrder(Decisions(session))
  /\ InPhaseOrder(Decisions(artifact))
  /\ cmd \in {"run", "check"} =>
       /\ Decisions(session) # <<>> => Decisions(session)[1].phase = "precheck"
       /\ artifact # NoSession
            => (artifact.decisions # <<>> /\ artifact.decisions[1].phase = "precheck")

\* A `gateway check` in a hardened environment that passed every phase and
\* recorded the token issuance.
C3_Witness ==
  /\ cmd = "check" /\ pc = "exited"
  /\ artifact # NoSession
  /\ Len(artifact.decisions) = 5
  /\ Last(artifact.decisions).phase = "scope_token"

\* A token is presented: the variable holds a non-empty text.
TokenPresented == environ.token.kind \notin {"none", "empty"}

\* The key variable is absent, is no key, or does not verify the token.
KeyUnusable ==
  \/ environ.key.kind \in {"none", "empty", "garbage"}
  \/ ~VerifyScopeToken(environ.token, environ.key).ok

\* C6: an invocation that finds a token together with a key that is absent,
\* undecodable or does not verify it has exited non-zero without a session:
\* no decision, no artifact, no token minted, nothing launched.
C6_TrustRefusal ==
  (cmd # "none" /\ TokenPresented /\ KeyUnusable)
    => /\ pc = "exited" /\ exit_code # 0
       /\ session = NoSession /\ artifact = NoSession /\ finalize_calls = 0
       /\ loc = NoLocals
       /\ launches = <<>>

\* A token minted by an earlier session was presented with the key of
\* somebody else, and the invocation was refused.
C6_Witness ==
  /\ pc = "exited" /\ exit_code = 1
  /\ environ.token \in issued
  /\ environ.key.kind = "key"
  /\ environ.key.owner # environ.token.signer
  /\ session = NoSession

\* C7: a started session has no parent only if no token was presented;
\* otherwise the token verifies under the presented key and the parent is the
\* token's parent_session; a token minted by a session, presented with the
\* key of another one, starts no session.
C7_ParentFromVerifiedToken ==
  /\ session # NoSession =>
       /\ session.parent_session_id = NoParent => ~TokenPresented
       /\ TokenPresented =>
            /\ VerifyScopeToken(environ.token, environ.key).ok
            /\ session.parent_session_id = environ.token.parent_session
            /\ loc.parent_session_id = environ.token.parent_session
  /\ (environ.token \in issued /\ environ.key # PublicKey(environ.token.parent_session))
       => session = NoSession

\* A `run` started as the child of the earlier session whose token and key it
\* was given.
C7_Witness ==
  /\ cmd = "run" /\ pc = "precheck"
  /\ environ.token \in issued
  /\ environ.key = PublicKey(environ.token.parent_session)
  /\ session.parent_session_id = environ.token.parent_session
  /\ session.parent_session_id # session.session_id

LaunchEnded(result) == launches # <<>> /\ Last(launches).result = result

\* C8: a `run` that recorded a block exits non-zero: 2 after a launch
\* failure, 1 after any other block; a `run` that recorded complete exits
\* with the return code of the wrapped process.
C8_ExitCodeContract ==
  (cmd = "run" /\ pc = "exited") =>
    /\ HasBlock(Decisions(session)) => exit_code # 0
    /\ LaunchEnded("oserror") => exit_code = 2
    /\ (HasBlock(Decisions(session)) /\ ~LaunchEnded("oserror")) => exit_code = 1
    /\ HasDecision(Decisions(session), "complete") => exit_code = loc.returncode

\* A `run` whose child returned the largest code forwarded it.
C8_Witness ==
  /\ cmd = "run" /\ pc = "exited"
  /\ HasDecision(Decisions(session), "complete")
  /\ loc.returncode = MaxReturnCode
  /\ exit_code = MaxReturnCode

\* C9: after a timeout of the wrapped command the ledger ends with the
\* execute/block/SG-RT-TIMEOUT decision, the artifact is finalized with it,
\* the exit code is non-zero, no tool_output or complete decision exists and
\* nothing was written to stdout or stderr.
C9_Timeout ==
  LaunchEnded("timeout") =>
    /\ pc = "exited" /\ exit_code # 0
    /\ Last(session.decisions).phase = "execute"
    /\ Last(session.decisions).outcome = "block"
    /\ Last(session.decisions).code = "SG-RT-TIMEOUT"
    /\ finalize_calls = 1 /\ artifact = session
    /\ ~HasDecision(session.decisions, "tool_output")
    /\ ~HasDecision(session.decisions, "complete")
    /\ emitted = NoOutput

\* The child outlived a timeout configured as 0 (enforced as 1 second).
C9_Witness ==
  /\ LaunchEnded("timeout")
  /\ Last(launches).timeout = 1
  /\ pc = "exited"

CompleteReflectsReturnCode(ds) ==
  /\ ds # <<>>
  /\ Last(ds).phase = "complete"
  /\ Last(ds).outcome = (IF loc.returncode = 0 THEN "allow" ELSE "warn")

CompleteNeverBlocks(ds) ==
  \A i \in 1..Len(ds) : ds[i].phase = "complete" => ds[i].outcome # "block"

\* C10 as stated: whenever the wrapped process returned an exit code, the
\* ledger of the exited `run` ends with complete (allow on 0, warn otherwise),
\* and complete never blocks.
C10_CompleteAlwaysRecorded ==
  /\ (cmd = "run" /\ pc = "exited" /\ LaunchEnded("returned"))
       => CompleteReflectsReturnCode(Decisions(session))
  /\ CompleteNeverBlocks(Decisions(session))

OutputBlocked(ds) ==
  \E i \in 1..Len(ds) : ds[i].phase = "tool_output" /\ ds[i].outcome = "block"

\* C10 amended: whenever the wrapped process returned an exit code and the
\* tool_output guard did not block, the ledger and the artifact of the exited
\* `run` end with complete (allow on 0, warn otherwise); complete never blocks.
C10_CompleteUnlessOutputBlocked ==
  /\ (cmd = "run" /\ pc = "exited" /\ LaunchEnded("returned")
        /\ ~OutputBlocked(Decisions(session)))
       => /\ CompleteReflectsReturnCode(Decisions(session))
          /\ CompleteReflectsReturnCode(Decisions(artifact))
  /\ CompleteNeverBlocks(Decisions(session))

\* A child that failed, with the guard letting its output through: complete
\* is the last decision and warns.
C10_Witness ==
  /\ cmd = "run" /\ pc = "exited"
  /\ LaunchEnded("returned")
  /\ loc.returncode # 0
  /\ HasDecision(session.decisions, "tool_output")
  /\ Last(artifact.decisions).phase = "complete"
  /\ Last(artifact.decisions).outcome = "warn"

Outcomes == {"allow", "block", "warn"}

WellFormed(ds) ==
  \A i \in 1..Len(ds) : ds[i].outcome \in Outcomes /\ ds[i].phase \in Range(Phases)

\* C11: in every reachable ledger state and in every artifact, each decision
\* has an outcome among allow, block, warn and one of the ten phase names.
C11_DecisionWellFormed ==
  WellFormed(Decisions(session)) /\ WellFormed(Decisions(artifact))

\* The --top-outcome the current invocation was given, "none" if it has none.
TopOutcome ==
  IF cmd = "scan" THEN args.top_outcome
  ELSE IF cmd = "run" /\ session # NoSession THEN loc.top_outcome
  ELSE "none"

\* The tool_output decisions a guard without an override can lead to.
OrganicDecisions == {ToolOutputDecision(r) : r \in ScanResults("none")}

\* C12: a tool_output decision whose outcome was forced by --top-outcome
\* carries the override in its metadata, hence differs from every decision
\* an organic detection produces.
C12_OverrideRecorded ==
  \A i \in 1..Len(Decisions(session)) :
    LET d == Decisions(session)[i]
    IN (d.phase = "tool_output" /\ TopOutcome # "none" /\ d.outcome = TopOutcome)
         => /\ DOMAIN d.metadata # {"matched_patterns"}
            /\ d \notin OrganicDecisions

\* The outcome of the tool_output decision of the ledger, "none" without one.
GuardOutcome(ds) ==
  IF HasDecision(ds, "tool_output")
    THEN (CHOOSE d \in Range(ds) : d.phase = "tool_output").outcome
    ELSE "none"

\* C13: nothing is written before `run` exits; after a guard BLOCK nothing is
\* written and the exit code is non-zero; after SANITIZE the sanitized text
\* alone is written; after ANNOTATE and PASS the captured stdout and stderr
\* are written unchanged.
C13_EmittedByGuardOutcome ==
  cmd = "run" =>
    /\ pc # "exited" => emitted = NoOutput
    /\ (pc = "exited" /\ GuardOutcome(Decisions(session)) = "block")
         => (emitted = NoOutput /\ exit_code # 0)
    /\ (pc = "exited" /\ GuardOutcome(Decisions(session)) = "sanitize")
         => emitted = [stdout |-> "sanitized", stderr |-> ""]
    /\ (pc = "exited" /\ GuardOutcome(Decisions(session)) \in {"annotate", "pass"})
         => emitted = [stdout |-> loc.stdout, stderr |-> loc.stderr]

\* A child wrote to both streams, the guard sanitized, and only the sanitized
\* text went out.
C13_Witness ==
  /\ cmd = "run" /\ pc = "exited"
  /\ GuardOutcome(Decisions(session)) = "sanitize"
  /\ loc.stdout = "out" /\ loc.stderr = "err"
  /\ emitted = [stdout |-> "sanitized", stderr |-> ""]

\* The invocation is a `run` or `gateway check` that has a session.
InPipeline == cmd \in {"run", "check"} /\ session # NoSession

PrecheckAllowed(ds) == ds # <<>> /\ ds[1].phase = "precheck" /\ ds[1].outcome = "allow"

Hardened == args.env \in {"ci", "prod", "strict"}

\* C14: in ci, prod or strict, once precheck allowed and the provenance block
\* of the handler is behind, a missing skill id, hash or attestation has left a
\* provenance block with code SG-RT-PROV-001 and no bom_gate, approval or
\* reputation decision, and the invocation exits non-zero.
C14_ProvenanceGate ==
  (/\ InPipeline /\ Hardened
   /\ ~args.skill_id \/ ~args.skill_hash \/ ~args.scan_attestation
   /\ PrecheckAllowed(session.decisions)
   /\ pc \notin {"precheck", "provenance"})
    => /\ \E i \in 1..Len(session.decisions) :
            /\ session.decisions[i].phase = "provenance"
            /\ session.decisions[i].outcome = "block"
            /\ session.decisions[i].code = "SG-RT-PROV-001"
       /\ ~HasDecision(session.decisions, "bom_gate")
       /\ ~HasDecision(session.decisions, "approval")
       /\ ~HasDecision(session.decisions, "reputation")
       /\ pc = "exited" => (exit_code # 0 /\ artifact = session)

\* `gateway check` in prod with a skill id but no hash: blocked at provenance.
C14_Witness ==
  /\ cmd = "check" /\ pc = "exited" /\ exit_code = 1
  /\ args.env = "prod" /\ args.skill_id /\ ~args.skill_hash
  /\ artifact # NoSession
  /\ Len(artifact.decisions) = 2
  /\ Last(artifact.decisions).code = "SG-RT-PROV-001"

\* C15: a `run` in dev without skill id, hash and attestation records no
\* provenance, bom_gate or approval decision, and once precheck allowed it
\* does not exit without an execute_start decision and a launch.
C15_DevPath ==
  (/\ cmd = "run" /\ session # NoSession
   /\ args.env = "dev"
   /\ ~args.skill_id /\ ~args.skill_hash /\ ~args.scan_attestation)
    => /\ ~HasDecision(session.decisions, "provenance")
       /\ ~HasDecision(session.decisions, "bom_gate")
       /\ ~HasDecision(session.decisions, "approval")
       /\ (pc = "exited" /\ PrecheckAllowed(session.decisions))
            => (HasDecision(session.decisions, "execute_start") /\ launches # <<>>)

\* An approval decision with outcome allow stands before position j.
ApprovedBefore(ds, j) ==
  \E i \in 1..(j - 1) : ds[i].phase = "approval" /\ ds[i].outcome = "allow"

AfterApproval == {"reputation", "scope_token", "execute_start", "execute", "tool_output",
                  "complete"}

\* C16: right after the approval block the quorum is the larger of the flag
\* and the variable; with a positive quorum in ci, prod or strict every
\* decision from reputation on, every token of the session and every launch
\* comes after an approval decision with outcome allow; an approval decision
\* counting fewer reviewers than the quorum is a block with reviewer_count in
\* its metadata, and is the last decision of the finalized artifact.
C16_ApprovalQuorum ==
  InPipeline =>
    LET ds == session.decisions
        raw == loc.reviewers_env
    IN /\ (pc = "reputation" \/ (cmd = "run" /\ ds # <<>> /\ Last(ds).phase = "approval")) =>
            /\ raw \in {"unset", ""} => loc.reviewers_required = loc.required_reviewers
            /\ PyInt(raw).ok =>
                 loc.reviewers_required = Max(loc.required_reviewers, PyInt(raw).value)
       /\ (Hardened /\ loc.reviewers_required > 0) =>
            /\ \A j \in 1..Len(ds) : ds[j].phase \in AfterApproval => ApprovedBefore(ds, j)
            /\ (CreateScopeToken(session.session_id) \in issued \/ launches # <<>>)
                 => ApprovedBefore(ds, Len(ds) + 1)
       /\ \A j \in 1..Len(ds) :
            (/\ ds[j].phase = "approval"
             /\ "reviewer_count" \in DOMAIN ds[j].metadata
             /\ ds[j].metadata.reviewer_count < loc.reviewers_required)
              => /\ ds[j].outcome = "block"
                 /\ j = Len(ds)
                 /\ pc = "exited" => artifact = session

\* Flag 1, variable 2, an approval file with one reviewer: `run` blocked at
\* approval with reviewer_count = 1 and wrote the artifact.
C16_Witness ==
  /\ cmd = "run" /\ pc = "exited" /\ artifact # NoSession
  /\ loc.required_reviewers = 1 /\ loc.reviewers_env = "2"
  /\ loc.reviewers_required = 2
  /\ Last(artifact.decisions).phase = "approval"
  /\ Last(artifact.decisions).outcome = "block"
  /\ Last(artifact.decisions).metadata = [reviewer_count |-> 1]

\* The scope token of the current session was minted.
TokenMinted == CreateScopeToken(session.session_id) \in issued

\* `gateway check` printed its JSON result.
CheckReported == cmd = "check" /\ pc = "exited" /\ session # NoSession

NonNullExactlyWhenAllowed ==
  CheckReported => (emitted.result.scope_token # NoToken <=> emitted.result.allowed)

\* C17 as stated: no token exists for a session that has any block decision,
\* and `gateway check` reports a non-null scope_token exactly when it reports
\* allowed = true.
C17_NoTokenWithAnyBlock ==
  /\ InPipeline => (HasBlock(session.decisions) => ~TokenMinted)
  /\ NonNullExactlyWhenAllowed

PolicyPhases == {"precheck", "provenance", "bom_gate", "approval", "reputation"}

HasPolicyBlock(ds) ==
  \E i \in 1..Len(ds) : ds[i].phase \in PolicyPhases /\ ds[i].outcome = "block"

\* C17 amended: no token exists for, and no child environment or JSON result
\* carries a token of, a session with a block decision of a policy phase
\* (precheck .. reputation); `gateway check` reports a non-null scope_token
\* exactly when it reports allowed = true.
C17_NoTokenWithPolicyBlock ==
  /\ InPipeline =>
       /\ HasPolicyBlock(session.decisions) => (~TokenMinted /\ launches = <<>>)
       /\ (TokenMinted \/ launches # <<>>) => HasDecision(session.decisions, "reputation")
       /\ loc.scope_token # NoToken => (TokenMinted /\ ~HasPolicyBlock(session.decisions))
  /\ NonNullExactlyWhenAllowed
  /\ CheckReported => (emitted.result.allowed <=> ~HasBlock(session.decisions))

\* A `run` that minted its token, handed it to the child and then recorded
\* the timeout block; and nothing of the policy phases blocked.
C17_Witness ==
  /\ cmd = "run" /\ pc = "exited" /\ session # NoSession
  /\ TokenMinted
  /\ LaunchEnded("timeout")
  /\ Last(launches).env.token = CreateScopeToken(session.session_id)
  /\ HasBlock(session.decisions) /\ ~HasPolicyBlock(session.decisions)

\* The edge from the presented token's parent session to the session `a`.
EdgeToParent(a) ==
  [parent_session_id |-> environ.token.parent_session, child_session_id |-> a.session_id,
   decision |-> "allow"]

\* C18 as stated: the finalized artifact of every session started with a
\* valid token holds exactly one lineage edge, from the token's parent session
\* to the session itself; one started without a token holds none.
C18_EdgeForEveryChild ==
  artifact # NoSession =>
    IF artifact.parent_session_id # NoParent
      THEN artifact.lineage_edges = <<EdgeToParent(artifact)>>
      ELSE artifact.lineage_edges = <<>>

\* C18 amended: the finalized artifact of a session started with a valid token
\* in which no policy phase blocked holds exactly one lineage edge, from the
\* token's parent session to the session itself; the artifact of a session
\* blocked in a policy phase, or started without a token, holds none.
C18_EdgeForAllowedChild ==
  artifact # NoSession =>
    IF artifact.parent_session_id # NoParent /\ ~HasPolicyBlock(artifact.decisions)
      THEN artifact.lineage_edges = <<EdgeToParent(artifact)>>
      ELSE artifact.lineage_edges = <<>>

\* A `run` started with the token of an earlier session finished with the
\* edge from that session in its artifact.
C18_Witness ==
  /\ cmd = "run" /\ pc = "exited" /\ artifact # NoSession
  /\ environ.token \in issued
  /\ artifact.parent_session_id = environ.token.parent_session
  /\ Len(artifact.lineage_edges) = 1
  /\ artifact.lineage_edges[1].parent_session_id = environ.token.parent_session
  /\ artifact.lineage_edges[1].child_session_id = artifact.session_id

\* The ledger holds an execute_start decision that names the backend and the
\* exec vector of the launch.
Announced(ds, launch) ==
  \E i \in 1..Len(ds) :
    /\ ds[i].phase = "execute_start"
    /\ ds[i].metadata.command = launch.command
    /\ ds[i].metadata.backend = launch.command.backend

\* C19: every step that launches the wrapped command starts from a ledger that
\* already holds the execute_start decision naming the resolved backend and
\* the exec vector of that launch, and the decision stays in the ledger.
C19_ExecuteStartBeforeLaunch ==
  [][(launches' # launches /\ launches' # <<>>)
       => /\ Len(launches') = 1
          /\ Announced(session.decisions, launches'[1])
          /\ Announced(session'.decisions, launches'[1])
          /\ launches'[1].command.backend = loc.backend]_vars

\* No isolation backend was available: the command ran directly and the
\* execute_start decision says so.
C19_Witness ==
  /\ launches # <<>>
  /\ Last(launches).command.backend = "none"
  /\ Announced(session.decisions, Last(launches))
  /\ \E i \in 1..Len(session.decisions) :
       /\ session.decisions[i].phase = "execute_start"
       /\ session.decisions[i].metadata.backend = "none"

\* C20: `dag verify` exits 0 exactly when the artifact verifies and 1 when it
\* does not; `dag risk` on an artifact that does not verify prints nothing and
\* exits 1 without --allow-unsigned, and with it every summary it prints
\* carries verified = false.
C20_IntegrityNeverIgnored ==
  /\ dag.cmd = "verify" =>
       /\ dag.exit_code = 0 <=> (dag.file.exists /\ VerifySessionArtifact(dag.file))
       /\ (dag.file.exists /\ ~VerifySessionArtifact(dag.file)) => dag.exit_code = 1
  /\ (dag.cmd = "risk" /\ dag.file.exists /\ ~VerifySessionArtifact(dag.file)) =>
       IF ~dag.allow_unsigned
         THEN dag.stdout = NoText /\ dag.exit_code = 1
         ELSE dag.stdout.kind = "summary"
                => ("verified" \in DOMAIN dag.stdout /\ dag.stdout.verified = FALSE)

\* C21: whatever a reader observes of a store file, during a write or after a
\* crashed one, is the complete content before the last write or the complete
\* content that write was given.
C21_AtomicStoreWrites ==
  store.observed \in {store.previous, store.new}

\* C22: once an invocation was accepted as a child from a token, no later
\* invocation presenting the same token and key is accepted as a child of
\* that parent again.
C22_TokenOneShot ==
  \A i, j \in 1..Len(handoff) :
    (/\ i < j
     /\ handoff[i].token.kind = "token"
     /\ ~handoff[i].exit
     /\ handoff[i].parent_session_id # NoParent
     /\ handoff[j].token = handoff[i].token
     /\ handoff[j].key = handoff[i].key)
      => (handoff[j].exit \/ handoff[j].parent_session_id # handoff[i].parent_session_id)

SigningErrors ==
  {"SigningError: no attestation block", "SigningError: hash mismatch",
   "SigningError: invalid public key", "SigningError: invalid signature",
   "SigningError: attestation missing fields", "SigningError: invalid signature hex"}

\* The payload's content outside the attestation block is what was signed.
Unchanged == signed.done /\ BuildSigningScope(payload) = signed.content

\* The whole payload is what create_signed_report returned.
Untouched == Unchanged /\ payload["attestation"] = signed.attestation

\* C4: verify_report on a signed payload whose content outside the
\* attestation block was altered, extended or reduced (top-level or nested)
\* raises SigningError; it returns True only for unchanged content.
C4_TamperEvidence ==
  (verdict.by = "verify_report" /\ ~Unchanged) => verdict.result \in SigningErrors

\* verify_report rejected a payload in which only the nested `sev` changed.
C4_Witness ==
  /\ verdict.by = "verify_report"
  /\ verdict.result = "SigningError: hash mismatch"
  /\ DOMAIN payload = DOMAIN signed.content \cup {"attestation"}
  /\ "findings" \in DOMAIN signed.content
  /\ \A k \in DOMAIN signed.content : k # "findings" => payload[k] = signed.content[k]
  /\ payload["findings"] # signed.content["findings"]

\* C5: an untouched create_signed_report payload verifies with verify_report
\* and with verify_report_with_key under the public key of the signing
\* directory; under the public key of another keypair it raises SigningError.
C5_SignVerifyRoundTrip ==
  Untouched =>
    /\ verdict.by = "verify_report" => verdict.result = "True"
    /\ verdict.by = "verify_report_with_key" =>
         IF verdict.key = keystore[signed.dir].public
           THEN verdict.result = "True"
           ELSE verdict.result \in SigningErrors

\* An untouched payload was refused under the public key of the keypair of
\* another directory.
C5_Witness ==
  /\ Untouched
  /\ verdict.by = "verify_report_with_key"
  /\ verdict.key.kind = "key"
  /\ verdict.key # keystore[signed.dir].public
  /\ verdict.result = "SigningError: invalid signature"

\* C23: verify_report and verify_report_with_key reject a payload whose
\* signed content was altered with the hash-mismatch error, whatever its
\* public_key and signature fields contain.
C23_DigestCheckFirst ==
  (/\ verdict.by \in {"verify_report", "verify_report_with_key"}
   /\ ~Unchanged
   /\ {"public_key", "signature"} \subseteq DOMAIN payload["attestation"])
    => verdict.result = "SigningError: hash mismatch"

\* verify_report reported the hash mismatch for an altered payload whose
\* public_key field is no key and whose signature field is no hex.
C23_Witness ==
  /\ verdict.by = "verify_report"
  /\ ~Unchanged
  /\ "signature" \in DOMAIN payload["attestation"]
  /\ payload["attestation"].public_key = GarbageKey
  /\ payload["attestation"].signature = NotHex
  /\ verdict.result = "SigningError: hash mismatch"

\* C24: after a timeout and after an OS-level launch failure of the wrapped
\* command the ledger ends with an execute decision of outcome block and
\* severity critical, the run is over and the command was launched once.
C24_LaunchFailureCritical ==
  (LaunchEnded("timeout") \/ LaunchEnded("oserror")) =>
    /\ pc = "exited"
    /\ Len(launches) = 1
    /\ Last(session.decisions).phase = "execute"
    /\ Last(session.decisions).outcome = "block"
    /\ Last(session.decisions).severity = "critical"

\* C25: in ci, prod or strict, with SKILLGATE_APPROVAL_REQUIRED_REVIEWERS set
\* to a text that is no non-negative integer, neither `run` nor `gateway
\* check` goes on to the reputation phase, still allowed, without an approval
\* decision.
C25_InvalidReviewersRefused ==
  (/\ cmd \in {"run", "check"} /\ pc = "reputation"
   /\ Hardened
   /\ loc.reviewers_env \in {"abc", "-1"})
    => (~loc.allowed \/ HasDecision(session.decisions, "approval"))

\* The store holds a chain root -> child -> grandchild below `root` and
\* nothing else below it, and the one high-risk decision of the chain is at
\* the grandchild.
ChainWithHighRiskLeaf(root) ==
  \E c, g \in 1..Len(lineage.artifacts) :
    /\ lineage.artifacts[c].parent_session_id = root
    /\ lineage.artifacts[g].parent_session_id = c
    /\ \A n \in 1..Len(lineage.artifacts) :
         lineage.artifacts[n].parent_session_id \in {root, c, g} => n \in {c, g}
    /\ \A n \in {root, c} : \A i \in 1..Len(lineage.artifacts[n].decisions) :
         lineage.artifacts[n].decisions[i] \notin {"high", "critical"}
    /\ Cardinality({i \in 1..Len(lineage.artifacts[g].decisions) :
                      lineage.artifacts[g].decisions[i] \in {"high", "critical"}}) = 1

\* C26: for a chain root -> child -> grandchild with exactly one high-risk
\* decision, recorded at the grandchild, risk_summary(root) reports
\* node_count 3, max_depth 2, high_risk_decisions 1, high_risk_path_count 1
\* and blast_radius 3.
C26_ChainSummary ==
  (lineage.summary # NoSummary /\ ChainWithHighRiskLeaf(lineage.summary.root)) =>
    /\ lineage.summary.node_count = 3
    /\ lineage.summary.max_depth = 2
    /\ lineage.summary.high_risk_decisions = 1
    /\ lineage.summary.high_risk_path_count = 1
    /\ lineage.summary.blast_radius = 3

\* The summary of the root of such a chain whose grandchild holds a decision
\* of severity critical and whose child holds one of severity low.
C26_Witness ==
  /\ lineage.summary # NoSummary
  /\ lineage.summary.root = 1
  /\ ChainWithHighRiskLeaf(1)
  /\ Len(lineage.artifacts) = 3
  /\ lineage.artifacts[2].decisions = <<"low">>
  /\ lineage.artifacts[3].decisions = <<"critical">>

\* C27: every launch of the wrapped command is given an environment whose
\* token names the launching session as parent and is signed by the key whose
\* public half is in the key variable, the launching session's own; and no
\* step of `run`, the launch included, changes the gateway's own environment.
C27_ChildEnvironment ==
  [][/\ (launches' # launches /\ launches' # <<>>) =>
          /\ Last(launches').env.token.kind = "token"
          /\ Last(launches').env.token.parent_session = session.session_id
          /\ Last(launches').env.key.kind = "key"
          /\ Last(launches').env.key = PublicKey(session.session_id)
          /\ Last(launches').env.token.signer = Last(launches').env.key.owner
     /\ (cmd = "run" /\ pc \notin {"idle", "exited"}) => environ' = environ]_vars

\* A child session, started with its parent's token and key, launched the
\* wrapped command with its own token and key in their place.
C27_Witness ==
  /\ launches # <<>>
  /\ environ.token \in issued
  /\ environ.key = PublicKey(environ.token.parent_session)
  /\ session.parent_session_id = environ.token.parent_session
  /\ Last(launches).env.token # environ.token
  /\ Last(launches).env.key # environ.key
  /\ Last(launches).env.token.parent_session = session.session_id

\* The decisions of the policy phases, in ledger order.
PolicyDecisions(ds) == SelectSeq(ds, LAMBDA d : d.phase \in PolicyPhases)

\* The handler is past the block of code of a phase.
Passed(phase) ==
  /\ pc # "idle"
  /\ pc \in Range(Phases) => PhaseIndex(pc) > PhaseIndex(phase)

NoBlockBefore(ds, phase) ==
  \A i \in 1..Len(ds) : PhaseIndex(ds[i].phase) < PhaseIndex(phase) => ds[i].outcome # "block"

\* Whether the inputs make a phase record a decision when it is reached.
Records(phase) ==
  CASE phase = "provenance" ->
         Hardened /\ (~args.skill_id \/ ~args.skill_hash \/ ~args.scan_attestation)
    [] phase = "bom_gate" -> args.skill_id
    [] phase = "approval" -> Hardened /\ loc.reviewers_required > 0
    [] OTHER -> TRUE

\* The decision a phase records for an answer: outcome and code are the
\* answer's, the severity follows from the phase and the outcome.
AnswerShaped(d) ==
  CASE d.phase = "precheck" ->
         \E r \in PrecheckResults :
           /\ d.outcome = (IF r.allowed THEN "allow" ELSE "block")
           /\ d.code = r.code /\ d.severity = r.severity
    [] d.phase = "provenance" ->
         d.outcome = "block" /\ d.code = "SG-RT-PROV-001" /\ d.severity = "high"
    [] d.phase = "bom_gate" ->
         /\ d.outcome \in {"allow", "block"}
         /\ d.severity = (IF d.outcome = "block" THEN "critical" ELSE "low")
    [] d.phase = "approval" ->
         /\ d.outcome \in {"allow", "block"}
         /\ d.severity = (IF d.outcome = "block" THEN "high" ELSE "low")
    [] d.phase = "reputation" ->
         /\ d.outcome \in {"allow", "block"}
         /\ d.severity = (IF d.outcome = "block" THEN "high" ELSE "low")
    [] OTHER -> TRUE

C30_AuditBeforeRelease ==
  [][(cmd = "run" /\ emitted' # emitted /\ emitted' # NoOutput) =>
       /\ finalize_calls = 1
       /\ artifact = session
       /\ Last(session.decisions).phase = "complete"
       /\ session' = session /\ artifact' = artifact]_vars

\* A run released the output of a failed child after writing the artifact.
C30_Witness ==
  /\ cmd = "run" /\ pc = "exited"
  /\ emitted.stdout = "out" /\ emitted.stderr = "err"
  /\ loc.returncode # 0
  /\ finalize_calls = 1 /\ artifact = session
  /\ Last(artifact.decisions).phase = "complete"

\* Every generate_keypair call on the directory has returned or raised.
KeygenOver == \A p \in 1..MaxKeygenCalls : keydir.pc[p] \in {"done", "failed"}

\* C29: once the concurrent generate_keypair calls on a directory are over,
\* signing.pub holds the public key of the key in signing.key, signing.key
\* holds the first key that was stored in it, and a report signed with the
\* two files verifies.
C29_KeypairConsistent ==
  KeygenOver =>
    /\ keydir.public = keydir.private
    /\ keydir.private = keydir.first_private
    /\ keydir.signverify \in {"none", "True"}

====
